---- MODULE Spec2Model ----
(***************************************************************************)
(* Model of the yield optimizer of apy_listener: the rate models, the two  *)
(* move simulators (RealtimeOptimizer.analyze_move of cron_service.py and  *)
(* EquilibriumOptimizer.analyze_move of cron_dummy.py), the two searches   *)
(* and the decision policy (optimize_from_cron_data).                      *)
(*                                                                         *)
(* Numbers.  The program computes in Python floats.  The model computes in *)
(* exact rational arithmetic: a rational is a record [neg, n, d] whose      *)
(* numerator n and denominator d are natural numbers written as sequences  *)
(* of base-10000 limbs, least significant limb first (TLC's own integers   *)
(* are 32 bits wide and the weighted rates do not fit).  Rounding of the   *)
(* floats is not modelled: an equality below is an equality of the real    *)
(* numbers the code's expressions denote.                                  *)
(*                                                                         *)
(* Money is counted in USD.                                                *)
(*                                                                         *)
(* Calls.  A modelled function calls another through Invoke, the table of  *)
(* the modelled functions: Invoke("f", <<a, b>>) is f(a, b).  TLC expands  *)
(* an operator at each place it is used when it collects coverage, and a   *)
(* recursive operator only once; calling through the table keeps that      *)
(* expansion linear in the size of the model.                              *)
(***************************************************************************)
EXTENDS Integers, Sequences, FiniteSets, TLC

VARIABLES
    pools,            \* venue -> CronPoolData, as parse_cron_data returns it
    position,         \* venue -> balance held (current_position)
    PROTOCOL_PARAMS,  \* cron_service.PROTOCOL_PARAMS, fetched once at import
    pc,               \* where the operation in progress stands
    call,             \* the operation called last and its arguments
    locals,           \* local variables of that call
    ret               \* the value it returned

vars == <<pools, position, PROTOCOL_PARAMS, pc, call, locals, ret>>

\* ------------------------------------------------------------------------
\* Natural numbers as limb sequences
\* ------------------------------------------------------------------------

BASE == 100 * 100

\* s without its most significant limbs that are 0
NStrip(s) ==
    LET used == {i \in 1..Len(s) : s[i] # 0}
    IN  IF used = {} THEN << >>
        ELSE SubSeq(s, 1, CHOOSE i \in used : \A j \in used : j <= i)

RECURSIVE NFromInt(_)
NFromInt(i) == IF i = 0 THEN << >> ELSE <<i % BASE>> \o NFromInt(i \div BASE)

\* the native value of a natural of at most two limbs
NToInt(s) ==
    IF Len(s) = 0 THEN 0 ELSE IF Len(s) = 1 THEN s[1] ELSE s[1] + BASE * s[2]

Limb(s, i) == IF i <= Len(s) THEN s[i] ELSE 0

NIsZero(s) == Len(s) = 0

\* The operations below work on a range of limbs by halves, so that the
\* depth of their evaluation grows with the logarithm of the length.

\* cols[lo..hi] with carry c brought in at lo: the limbs s and the carry c
\* brought out at hi; a negative carry is a borrow
RECURSIVE Carry(_, _, _, _)
Carry(cols, lo, hi, c) ==
    IF lo > hi THEN [s |-> << >>, c |-> c]
    ELSE IF lo = hi
    THEN LET t == cols[lo] + c
         IN  [s |-> <<t % BASE>>, c |-> t \div BASE]
    ELSE LET mid == (lo + hi) \div 2
             Upper(low) ==
                LET high == Carry(cols, mid + 1, hi, low.c)
                IN  [s |-> low.s \o high.s, c |-> high.c]
         IN  CHOOSE both \in
                {Upper(low) : low \in {Carry(cols, lo, mid, c)}} : TRUE

NAdd(a, b) ==
    LET n == IF Len(a) > Len(b) THEN Len(a) ELSE Len(b)
        sum == Carry([i \in 1..n |-> Limb(a, i) + Limb(b, i)], 1, n, 0)
    IN  IF sum.c = 0 THEN sum.s ELSE sum.s \o <<sum.c>>

\* a - b for a >= b
NSub(a, b) ==
    NStrip(Carry([i \in 1..Len(a) |-> a[i] - Limb(b, i)], 1, Len(a), 0).s)

\* -1, 0, 1 as limbs lo..hi of a are below, equal to, above those of b
RECURSIVE NCmpAt(_, _, _, _)
NCmpAt(a, b, lo, hi) ==
    IF lo > hi THEN 0
    ELSE IF lo = hi
    THEN (IF a[lo] < b[lo] THEN -1 ELSE IF a[lo] > b[lo] THEN 1 ELSE 0)
    ELSE LET mid == (lo + hi) \div 2
             high == NCmpAt(a, b, mid + 1, hi)
         IN  IF high # 0 THEN high ELSE NCmpAt(a, b, lo, mid)

\* -1, 0, 1 as a < b, a = b, a > b
NCmp(a, b) ==
    IF Len(a) < Len(b) THEN -1
    ELSE IF Len(a) > Len(b) THEN 1
    ELSE NCmpAt(a, b, 1, Len(a))

\* the sum of f[lo..hi]
RECURSIVE SumRange(_, _, _)
SumRange(f, lo, hi) ==
    IF lo > hi THEN 0
    ELSE IF lo = hi THEN f[lo]
    ELSE LET mid == (lo + hi) \div 2
         IN  SumRange(f, lo, mid) + SumRange(f, mid + 1, hi)

\* the sum of a[i] * b[j] over i + j = k + 1
ColSum(a, b, k) ==
    LET lo == IF k > Len(b) THEN k - Len(b) + 1 ELSE 1
        hi == IF k < Len(a) THEN k ELSE Len(a)
    IN  SumRange([i \in lo..hi |-> a[i] * b[k - i + 1]], lo, hi)

NMul(a, b) ==
    IF Len(a) = 0 \/ Len(b) = 0 THEN << >>
    ELSE IF Len(a) = 1 /\ a[1] = 1 THEN b
    ELSE IF Len(b) = 1 /\ b[1] = 1 THEN a
    ELSE LET n == Len(a) + Len(b)
         IN  NStrip(Carry([k \in 1..n |-> ColSum(a, b, k)], 1, n, 0).s)

\* limbs lo..hi of a divided by a native k with k * BASE within 32 bits,
\* from the most significant down, with remainder r brought in at hi: the
\* limbs s of the quotient and the remainder r brought out at lo
RECURSIVE NDivRange(_, _, _, _, _)
NDivRange(a, k, lo, hi, r) ==
    IF lo > hi THEN [s |-> << >>, r |-> r]
    ELSE IF lo = hi
    THEN LET t == r * BASE + a[lo]
         IN  [s |-> <<t \div k>>, r |-> t % k]
    ELSE LET mid == (lo + hi) \div 2
             Lower(high) ==
                LET low == NDivRange(a, k, lo, mid, high.r)
                IN  [s |-> low.s \o high.s, r |-> low.r]
         IN  CHOOSE both \in
                {Lower(high) : high \in {NDivRange(a, k, mid + 1, hi, r)}} :
                TRUE

\* a mod k
NModSmall(a, k) == NDivRange(a, k, 1, Len(a), 0).r

\* a div k
NDivSmall(a, k) ==
    IF k = 1 THEN a ELSE NStrip(NDivRange(a, k, 1, Len(a), 0).s)

RECURSIVE Gcd(_, _)
Gcd(a, b) == IF b = 0 THEN a ELSE Gcd(b, a % b)

NIsNative(s) == Len(s) <= 2

\* small enough for NModSmall and NDivSmall to stay within 32 bits
NIsSmall(s) == Len(s) <= 1 \/ (Len(s) = 2 /\ s[2] < 20)

\* powers of the primes up to 13, the larger powers of a prime first
SmoothDivisors ==
    <<65536, 256, 16, 2, 19683, 243, 27, 3, 15625, 625, 25, 5,
      16807, 49, 7, 14641, 11, 28561, 13>>

\* a and b with their common factors among the primes up to 13 divided out
RECURSIVE SmoothPair(_, _, _)
SmoothPair(a, b, ps) ==
    IF Len(ps) = 0 THEN <<a, b>>
    ELSE LET p == Head(ps)
         IN  IF NModSmall(a, p) = 0 /\ NModSmall(b, p) = 0
             THEN SmoothPair(NDivSmall(a, p), NDivSmall(b, p), ps)
             ELSE SmoothPair(a, b, Tail(ps))

\* every modelled function is called through Invoke, the table of them
\* below, and so are the operations on rationals
RECURSIVE Invoke(_, _)

ReducePair(a, b) == Invoke("ReducePair", <<a, b>>)
RMake(neg, n, d) == Invoke("RMake", <<neg, n, d>>)
RMul(x, y) == Invoke("RMul", <<x, y>>)
RAdd(x, y) == Invoke("RAdd", <<x, y>>)
RCmp(x, y) == Invoke("RCmp", <<x, y>>)

\* a / g and b / g for a common divisor g of a and b: their gcd when both
\* are native or one of them is small, else their common smooth part
ReducePairImpl(a, b) ==
    IF NIsZero(a) \/ NIsZero(b) THEN <<a, b>>
    ELSE IF NIsNative(a) /\ NIsNative(b)
    THEN LET x == NToInt(a)
             y == NToInt(b)
             g == Gcd(x, y)
         IN  <<NFromInt(x \div g), NFromInt(y \div g)>>
    ELSE IF NIsSmall(a)
    THEN LET x == NToInt(a)
             g == Gcd(x, NModSmall(b, x))
         IN  <<NFromInt(x \div g), NDivSmall(b, g)>>
    ELSE IF NIsSmall(b)
    THEN LET y == NToInt(b)
             g == Gcd(y, NModSmall(a, y))
         IN  <<NDivSmall(a, g), NFromInt(y \div g)>>
    ELSE SmoothPair(a, b, SmoothDivisors)

\* ------------------------------------------------------------------------
\* Rational numbers: [neg, n, d] is (-1)^neg * n / d with d > 0
\* ------------------------------------------------------------------------

NOne == <<1>>

RZero == [neg |-> FALSE, n |-> << >>, d |-> NOne]

RMakeImpl(neg, n, d) ==
    IF NIsZero(n) THEN RZero
    ELSE LET r == ReducePair(n, d)
         IN  [neg |-> neg, n |-> r[1], d |-> r[2]]

\* the rational a / b of two native integers, b # 0
Frac(a, b) ==
    LET x == IF a < 0 THEN -a ELSE a
        y == IF b < 0 THEN -b ELSE b
        g == Gcd(x, y)
    IN  IF a = 0 THEN RZero
        ELSE [neg |-> (a < 0) # (b < 0),
              n |-> NFromInt(x \div g), d |-> NFromInt(y \div g)]

RInt(a) == Frac(a, 1)

RNeg(x) == IF NIsZero(x.n) THEN x ELSE [x EXCEPT !.neg = ~x.neg]

RAbs(x) == [x EXCEPT !.neg = FALSE]

RSign(x) == IF NIsZero(x.n) THEN 0 ELSE IF x.neg THEN -1 ELSE 1

RMulImpl(x, y) ==
    IF NIsZero(x.n) \/ NIsZero(y.n) THEN RZero
    ELSE LET p == ReducePair(x.n, y.d)
             q == ReducePair(y.n, x.d)
         IN  RMake(x.neg # y.neg, NMul(p[1], q[1]), NMul(q[2], p[2]))

\* x / y for y # 0
RDiv(x, y) == RMul(x, [neg |-> y.neg, n |-> y.d, d |-> y.n])

RAddImpl(x, y) ==
    IF NIsZero(x.n) THEN y
    ELSE IF NIsZero(y.n) THEN x
    ELSE LET dd == ReducePair(x.d, y.d)
             a  == NMul(x.n, dd[2])
             b  == NMul(y.n, dd[1])
             d  == NMul(x.d, dd[2])
         IN  IF x.neg = y.neg THEN RMake(x.neg, NAdd(a, b), d)
             ELSE LET c == NCmp(a, b)
                  IN  IF c = 0 THEN RZero
                      ELSE IF c > 0 THEN RMake(x.neg, NSub(a, b), d)
                      ELSE RMake(y.neg, NSub(b, a), d)

RSub(x, y) == RAdd(x, RNeg(y))

\* -1, 0, 1 as x < y, x = y, x > y
RCmpImpl(x, y) ==
    LET sx == RSign(x)
        sy == RSign(y)
    IN  IF sx # sy THEN (IF sx < sy THEN -1 ELSE 1)
        ELSE IF sx = 0 THEN 0
        ELSE LET c == NCmp(NMul(x.n, y.d), NMul(y.n, x.d))
             IN  IF sx > 0 THEN c ELSE -c

RLt(x, y) == RCmp(x, y) < 0
RLe(x, y) == RCmp(x, y) <= 0
RGt(x, y) == RCmp(x, y) > 0
RGe(x, y) == RCmp(x, y) >= 0
REq(x, y) == RCmp(x, y) = 0

\* Python's min(x, y) and max(x, y): the first argument on a tie
RMin(x, y) == IF RLt(y, x) THEN y ELSE x
RMax(x, y) == IF RGt(y, x) THEN y ELSE x

\* the sum of f[k] over k in S
RECURSIVE RSum(_, _)
RSum(f, S) ==
    IF S = {} THEN RZero
    ELSE LET k == CHOOSE x \in S : TRUE
         IN  RAdd(f[k], RSum(f, S \ {k}))

\* ------------------------------------------------------------------------
\* Snapshots and dictionaries
\* ------------------------------------------------------------------------

HyperFi == "HyperFi"
HyperLend == "HyperLend"

\* CronPoolData(protocol, current_apr, tvl, utilization); the protocol is
\* the key under which the snapshot is stored
CronPoolData(apr, tvl, utilization) ==
    [current_apr |-> apr, tvl |-> tvl, utilization |-> utilization]

\* a total_borrow that validates its inputs: nothing is borrowed from a
\* market with a negative supply or utilization
total_borrow_Validated(pool) ==
    IF RLt(pool.tvl, RZero) \/ RLt(pool.utilization, RZero) THEN RZero
    ELSE RMul(pool.tvl, pool.utilization)

total_borrow(pool) == RMul(pool.tvl, pool.utilization)

available_liquidity(pool) == RSub(pool.tvl, total_borrow(pool))

\* dict.get(key, 0)
Get(d, key) == IF key \in DOMAIN d THEN d[key] ELSE RZero

\* sum(d.values())
SumValues(d) == RSum(d, DOMAIN d)

HasError(r) == "error" \in DOMAIN r

\* ------------------------------------------------------------------------
\* parse_cron_data (cron_service.py)
\* ------------------------------------------------------------------------

\* A cron string is the sequence of the pieces the patterns of
\* parse_cron_data tell apart: a word, a rate field "13.79% apr" carrying
\* the number 13.79, a supply field "$2,950,186.42", a utilization field
\* "utilisation rate= 82.91%", and the end of a line, which "." does not
\* match.
Word(text) == [kind |-> "word", text |-> text]
AprField(percent) == [kind |-> "apr", value |-> percent]
TvlField(usd) == [kind |-> "tvl", value |-> usd]
UtilField(percent) == [kind |-> "util", value |-> percent]
NewLine == [kind |-> "newline"]

\* str.lower() on the spellings of the venues' names
str_lower(text) ==
    CASE text = "HypLend" -> "hyplend"
      [] text = "HYPERLEND" -> "hyperlend"
      [] text = "HypurFi" -> "hypurfi"
      [] text = "HyperFi" -> "hyperfi"
      [] OTHER -> text

\* the keywords that make parse_cron_data return an entry for a venue
Keywords(venue) ==
    IF venue = HyperLend THEN {"hyplend", "hyperlend"}
    ELSE {"hypurfi", "hyperfi"}

IsKeyword(piece, venue) ==
    piece.kind = "word" /\ str_lower(piece.text) \in Keywords(venue)

\* re.search(keyword .*? field, cron_string.lower()): the places of the
\* fields of a kind that follow a keyword of the venue on the same line;
\* the search matches at the first of them
FieldMatches(cron_string, venue, kind) ==
    {j \in 1..Len(cron_string) :
        /\ cron_string[j].kind = kind
        /\ \E i \in 1..(j - 1) :
              /\ IsKeyword(cron_string[i], venue)
              /\ \A m \in i..j : cron_string[m].kind # "newline"}

\* the number the search captures, 0 without a match
FieldValue(cron_string, venue, kind) ==
    LET matches == FieldMatches(cron_string, venue, kind)
    IN  IF matches = {} THEN RZero
        ELSE cron_string[CHOOSE j \in matches :
                            \A k \in matches : j <= k].value

\* the entry parse_cron_data builds for a venue
ParsedEntry(cron_string, venue) ==
    CronPoolData(RDiv(FieldValue(cron_string, venue, "apr"), RInt(100)),
                 FieldValue(cron_string, venue, "tvl"),
                 RDiv(FieldValue(cron_string, venue, "util"), RInt(100)))

parse_cron_data(cron_string) ==
    [venue \in {v \in {HyperLend, HyperFi} :
                   \E i \in 1..Len(cron_string) :
                      IsKeyword(cron_string[i], v)} |->
        ParsedEntry(cron_string, venue)]

\* ------------------------------------------------------------------------
\* Rate model of cron_service.py (parameters read from the chain)
\* ------------------------------------------------------------------------

ROne == RInt(1)

calculate_borrow_apr(utilization, protocol) ==
    LET params == PROTOCOL_PARAMS[protocol]
    IN  IF RLe(utilization, params.kink)
        THEN IF RGt(params.kink, RZero)
             THEN RAdd(params.base_rate,
                       RMul(params.slope1, RDiv(utilization, params.kink)))
             ELSE params.base_rate
        ELSE RAdd(RAdd(params.base_rate, params.slope1),
                  RMul(params.slope2,
                       RDiv(RSub(utilization, params.kink),
                            RSub(ROne, params.kink))))

calculate_supply_apr(utilization, protocol) ==
    LET borrow_apr == Invoke("calculate_borrow_apr", <<utilization, protocol>>)
        params == PROTOCOL_PARAMS[protocol]
    IN  RMul(RMul(borrow_apr, utilization), RSub(ROne, params.reserve_factor))

\* ------------------------------------------------------------------------
\* Rate model of cron_dummy.py (fixed parameters, calibrated)
\* ------------------------------------------------------------------------

DUMMY_PROTOCOL_PARAMS ==
    (HyperLend :> [kink |-> Frac(80, 100), base_rate |-> RZero,
                   slope1 |-> Frac(52, 1000), slope2 |-> RInt(1),
                   reserve_factor |-> Frac(10, 100)]) @@
    (HyperFi :> [kink |-> Frac(80, 100), base_rate |-> RZero,
                 slope1 |-> Frac(40, 1000), slope2 |-> Frac(75, 100),
                 reserve_factor |-> Frac(10, 100)])

\* 1e-6, the floor under kink and 1 - kink
Epsilon == Frac(1, 1000000)

\* the nested model_supply(u) of estimate_apr_at_utilization
model_supply(u0, protocol) ==
    LET params == DUMMY_PROTOCOL_PARAMS[protocol]
        kink == params.kink
        u == RMax(RZero, RMin(Frac(9999, 10000), u0))
        borrow ==
            IF RLe(u, kink)
            THEN RAdd(params.base_rate,
                      RMul(params.slope1, RDiv(u, RMax(kink, Epsilon))))
            ELSE RAdd(RAdd(params.base_rate, params.slope1),
                      RMul(params.slope2,
                           RDiv(RSub(u, kink),
                                RMax(RSub(ROne, kink), Epsilon))))
    IN  RMul(RMul(borrow, RSub(ROne, params.reserve_factor)), u)

\* the calibration factor: observed rate over modelled rate, 1 when the
\* modelled rate at the current utilization is not positive
\* a faulty variant: no calibration
scale_Unit(current_util, current_apr, protocol) == ROne

scale(current_util, current_apr, protocol) ==
    LET base_at_current == Invoke("model_supply", <<current_util, protocol>>)
    IN  IF RGt(base_at_current, RZero)
        THEN RDiv(current_apr, base_at_current)
        ELSE ROne

estimate_apr_at_utilization(utilization, current_util, current_apr, protocol) ==
    RMul(Invoke("model_supply", <<utilization, protocol>>),
         Invoke("scale", <<current_util, current_apr, protocol>>))

\* ------------------------------------------------------------------------
\* RealtimeOptimizer (cron_service.py)
\* ------------------------------------------------------------------------

\* the optimizer optimize_from_cron_data constructs:
\* RealtimeOptimizer(pools, position, min_gain_bps=0.1, gas_cost_usd=10)
RT_min_gain_bps == Frac(1, 10)
RT_gas_cost_usd == RInt(10)

\* {from_protocol: x, to_protocol: y}; a later key replaces an earlier one
Pair(from_protocol, x, to_protocol, y) ==
    (to_protocol :> y) @@ (from_protocol :> x)

\* a < k <= b or b < k <= a
Crosses(a, k, b) ==
    \/ RLt(a, k) /\ RLe(k, b)
    \/ RLt(b, k) /\ RLe(k, a)

\* a float that may be infinite: inf is the sign of the infinity, 0 for a
\* finite value
Fin(x) == [inf |-> 0, value |-> x]
PosInf == [inf |-> 1, value |-> RZero]
NegInf == [inf |-> -1, value |-> RZero]

ExtGt(a, b) ==
    IF a.inf # b.inf THEN a.inf > b.inf ELSE a.inf = 0 /\ RGt(a.value, b.value)

ExtLt(a, b) == ExtGt(b, a)

\* a faulty variant: the cap is not floored at 0
_max_move_to_keep_util_above_Unfloored(pool, min_util) ==
    IF RLe(min_util, RZero)
    THEN PosInf
    ELSE Fin(RSub(RDiv(total_borrow(pool), min_util), pool.tvl))

_max_move_to_keep_util_above(pool, min_util) ==
    LET borrows == total_borrow(pool)
        tvl == pool.tvl
    IN  IF RLe(min_util, RZero)
        THEN PosInf
        ELSE Fin(RMax(RZero, RSub(RDiv(borrows, min_util), tvl)))

\* amount > cap, where the cap may be float("inf")
Exceeds(amount, cap) == ExtGt(Fin(amount), cap)

\* the utilizations analyze_move computes for the two venues
\* a faulty variant: the withdrawal leaves the utilization where it was
RT_new_util_from_Stale(amount, from_protocol) ==
    pools[from_protocol].utilization

RT_new_util_from(amount, from_protocol) ==
    LET from_pool == pools[from_protocol]
        new_tvl_from == RSub(from_pool.tvl, amount)
    IN  RMin(IF RGt(new_tvl_from, RZero)
             THEN RDiv(total_borrow(from_pool), new_tvl_from)
             ELSE ROne,
             ROne)

RT_new_util_to(amount, to_protocol) ==
    LET to_pool == pools[to_protocol]
        new_tvl_to == RAdd(to_pool.tvl, amount)
    IN  RMin(IF RGt(new_tvl_to, RZero)
             THEN RDiv(total_borrow(to_pool), new_tvl_to)
             ELSE RZero,
             ROne)

\* the weighted rate of the current position at the calculated rates
RT_current_weighted_apr ==
    LET total_balance == SumValues(position)
        held == {p \in DOMAIN position :
                    RGt(position[p], RZero) /\ p \in DOMAIN pools}
        part == [p \in held |->
                    RMul(Invoke("calculate_supply_apr",
                                <<pools[p].utilization, p>>),
                         position[p])]
    IN  IF RGt(total_balance, RZero)
        THEN RDiv(RSum(part, held), total_balance)
        ELSE RZero

\* the balances analyze_move computes for the two venues
RT_new_balance_from(amount, from_protocol) ==
    RSub(Get(position, from_protocol), amount)

\* a faulty variant: the deposit is not credited to the destination
RT_new_balance_to_NotCredited(amount, to_protocol) ==
    Get(position, to_protocol)

RT_new_balance_to(amount, to_protocol) ==
    RAdd(Get(position, to_protocol), amount)

\* the body of analyze_move after its three early returns
RT_simulate(amount, from_protocol, to_protocol) ==
    LET from_pool == pools[from_protocol]
        to_pool == pools[to_protocol]
        new_tvl_from == RSub(from_pool.tvl, amount)
        new_tvl_to == RAdd(to_pool.tvl, amount)
        new_util_from == Invoke("RT_new_util_from", <<amount, from_protocol>>)
        new_util_to == Invoke("RT_new_util_to", <<amount, to_protocol>>)
        new_apr_from == Invoke("calculate_supply_apr",
                               <<new_util_from, from_protocol>>)
        new_apr_to == Invoke("calculate_supply_apr",
                             <<new_util_to, to_protocol>>)
        total_balance == SumValues(position)
        current_weighted_apr == Invoke("RT_current_weighted_apr", << >>)
        new_balance_from == RT_new_balance_from(amount, from_protocol)
        new_balance_to == RT_new_balance_to(amount, to_protocol)
        new_weighted_apr ==
            IF RGt(total_balance, RZero)
            THEN RDiv(RAdd(RMul(new_balance_from, new_apr_from),
                           RMul(new_balance_to, new_apr_to)),
                      total_balance)
            ELSE RZero
        diff == RSub(new_weighted_apr, current_weighted_apr)
        annual_gain_usd == RMul(diff, total_balance)
        gain_bps == RMul(diff, RInt(10000))
        kink == PROTOCOL_PARAMS[from_protocol].kink
        from_crosses_kink == Crosses(from_pool.utilization, kink, new_util_from)
        to_crosses_kink == Crosses(to_pool.utilization, kink, new_util_to)
    IN  [ret |->
            [amount |-> amount,
             from |-> from_protocol,
             to |-> to_protocol,
             current_util |-> Pair(from_protocol, from_pool.utilization,
                                   to_protocol, to_pool.utilization),
             new_util |-> Pair(from_protocol, new_util_from,
                               to_protocol, new_util_to),
             util_change |->
                Pair(from_protocol, RSub(new_util_from, from_pool.utilization),
                     to_protocol, RSub(new_util_to, to_pool.utilization)),
             current_apr |->
                Pair(from_protocol,
                     Invoke("calculate_supply_apr",
                            <<from_pool.utilization, from_protocol>>),
                     to_protocol,
                     Invoke("calculate_supply_apr",
                            <<to_pool.utilization, to_protocol>>)),
             new_apr |-> Pair(from_protocol, new_apr_from,
                              to_protocol, new_apr_to),
             current_weighted_apr |-> current_weighted_apr,
             new_weighted_apr |-> new_weighted_apr,
             annual_gain_usd |-> annual_gain_usd,
             gain_bps |-> gain_bps,
             kink_crossings |-> Pair(from_protocol, from_crosses_kink,
                                     to_protocol, to_crosses_kink),
             profitable |-> RGt(gain_bps, RT_min_gain_bps)
                            /\ RGt(annual_gain_usd, RT_gas_cost_usd)],
         locals |->
            [new_tvl_from |-> new_tvl_from,
             new_tvl_to |-> new_tvl_to,
             new_balance_from |-> new_balance_from,
             new_balance_to |-> new_balance_to]]

NoLocals == [none |-> TRUE]

\* the kink guard of analyze_move: the cap on a deposit into HyperLend
RT_safe_cap(to_protocol) ==
    Invoke("_max_move_to_keep_util_above",
           <<pools[to_protocol], Frac(80, 100)>>)

\* a faulty variant: an amount of 0 is simulated
RT_analyze_move_ZeroAllowed(amount, from_protocol, to_protocol) ==
    IF RGt(amount, Get(position, from_protocol))
    THEN [ret |-> [error |-> "Insufficient balance"], locals |-> NoLocals]
    ELSE IF RLt(amount, RZero)
    THEN [ret |-> [error |-> "Amount must be positive"], locals |-> NoLocals]
    ELSE IF to_protocol \in {HyperLend}
            /\ Exceeds(amount, Invoke("RT_safe_cap", <<to_protocol>>))
    THEN [ret |-> [error |-> "Move exceeds kink guard for HyperLend",
                   safe_cap |-> Invoke("RT_safe_cap", <<to_protocol>>).value],
          locals |-> NoLocals]
    ELSE Invoke("RT_simulate", <<amount, from_protocol, to_protocol>>)

\* a faulty variant: no kink guard
RT_analyze_move_NoGuard(amount, from_protocol, to_protocol) ==
    IF RGt(amount, Get(position, from_protocol))
    THEN [ret |-> [error |-> "Insufficient balance"], locals |-> NoLocals]
    ELSE IF RLe(amount, RZero)
    THEN [ret |-> [error |-> "Amount must be positive"], locals |-> NoLocals]
    ELSE Invoke("RT_simulate", <<amount, from_protocol, to_protocol>>)

RT_analyze_move(amount, from_protocol, to_protocol) ==
    IF RGt(amount, Get(position, from_protocol))
    THEN [ret |-> [error |-> "Insufficient balance"], locals |-> NoLocals]
    ELSE IF RLe(amount, RZero)
    THEN [ret |-> [error |-> "Amount must be positive"], locals |-> NoLocals]
    ELSE IF to_protocol \in {HyperLend}
            /\ Exceeds(amount, Invoke("RT_safe_cap", <<to_protocol>>))
    THEN [ret |-> [error |-> "Move exceeds kink guard for HyperLend",
                   safe_cap |-> Invoke("RT_safe_cap", <<to_protocol>>).value],
          locals |-> NoLocals]
    ELSE Invoke("RT_simulate", <<amount, from_protocol, to_protocol>>)

\* ------------------------------------------------------------------------
\* EquilibriumOptimizer (cron_dummy.py)
\* ------------------------------------------------------------------------

\* the defaults of EquilibriumOptimizer.__init__
EQ_min_gain_bps == RInt(10)
EQ_max_spread_bps == RInt(150)
EQ_min_safe_util == Frac(805, 1000)
EQ_max_safe_util == Frac(87, 100)
EQ_gas_cost_usd == RInt(10)

EQ_new_util_from(amount, from_protocol) ==
    LET from_pool == pools[from_protocol]
        new_tvl_from == RSub(from_pool.tvl, amount)
    IN  IF RGt(new_tvl_from, RZero)
        THEN RDiv(total_borrow(from_pool), new_tvl_from)
        ELSE ROne

\* a faulty variant: the deposit leaves the utilization where it was
EQ_new_util_to_Flat(amount, to_protocol) ==
    pools[to_protocol].utilization

EQ_new_util_to(amount, to_protocol) ==
    LET to_pool == pools[to_protocol]
        new_tvl_to == RAdd(to_pool.tvl, amount)
    IN  IF RGt(new_tvl_to, RZero)
        THEN RDiv(total_borrow(to_pool), new_tvl_to)
        ELSE RZero

\* the weighted rate of the current position at the observed rates
EQ_current_weighted_apr ==
    LET total_balance == SumValues(position)
        held == {p \in DOMAIN position :
                    RGt(position[p], RZero) /\ p \in DOMAIN pools}
        part == [p \in held |-> RMul(pools[p].current_apr, position[p])]
    IN  IF RGt(total_balance, RZero)
        THEN RDiv(RSum(part, held), total_balance)
        ELSE RZero

InSafeBand(u) == RLe(EQ_min_safe_util, u) /\ RLe(u, EQ_max_safe_util)

\* a faulty variant: a move that narrows the spread without bringing it
\* under the cap is not stable
EQ_is_stable_NoRelaxation(util_within_limits, spread_within_limit, reduces_spread) ==
    util_within_limits /\ spread_within_limit

\* is_stable of analyze_move
EQ_is_stable(util_within_limits, spread_within_limit, reduces_spread) ==
    util_within_limits /\ (spread_within_limit \/ reduces_spread)

\* stability_score of analyze_move
EQ_stability_score(is_stable, new_util_from, new_util_to, apr_spread) ==
    IF is_stable
    THEN LET optimal_util == Frac(825, 1000)
             util_score ==
                RSub(ROne,
                     RDiv(RAdd(RAbs(RSub(new_util_from, optimal_util)),
                               RAbs(RSub(new_util_to, optimal_util))),
                          Frac(2, 10)))
             spread_score ==
                RSub(ROne,
                     RDiv(apr_spread, RDiv(EQ_max_spread_bps, RInt(10000))))
         IN  RAdd(RMul(util_score, Frac(6, 10)), RMul(spread_score, Frac(4, 10)))
    ELSE RZero

EQ_new_balance_from(amount, from_protocol) ==
    RSub(Get(position, from_protocol), amount)

EQ_new_balance_to(amount, to_protocol) ==
    RAdd(Get(position, to_protocol), amount)

\* the body of analyze_move after its two early returns
EQ_simulate(amount, from_protocol, to_protocol) ==
    LET from_pool == pools[from_protocol]
        to_pool == pools[to_protocol]
        new_tvl_from == RSub(from_pool.tvl, amount)
        new_tvl_to == RAdd(to_pool.tvl, amount)
        new_util_from == Invoke("EQ_new_util_from", <<amount, from_protocol>>)
        new_util_to == Invoke("EQ_new_util_to", <<amount, to_protocol>>)
        new_apr_from ==
            Invoke("estimate_apr_at_utilization",
                   <<new_util_from, from_pool.utilization,
                                        from_pool.current_apr, from_protocol>>)
        new_apr_to ==
            Invoke("estimate_apr_at_utilization",
                   <<new_util_to, to_pool.utilization,
                                        to_pool.current_apr, to_protocol>>)
        apr_spread == RAbs(RSub(new_apr_from, new_apr_to))
        current_spread == RAbs(RSub(from_pool.current_apr, to_pool.current_apr))
        reduces_spread == RLt(apr_spread, current_spread)
        spread_within_limit ==
            RLe(apr_spread, RDiv(EQ_max_spread_bps, RInt(10000)))
        util_within_limits == InSafeBand(new_util_from) /\ InSafeBand(new_util_to)
        is_stable ==
            EQ_is_stable(util_within_limits, spread_within_limit, reduces_spread)
        total_balance == SumValues(position)
        current_weighted_apr == Invoke("EQ_current_weighted_apr", << >>)
        new_balance_from == EQ_new_balance_from(amount, from_protocol)
        new_balance_to == EQ_new_balance_to(amount, to_protocol)
        new_weighted_apr ==
            RDiv(RAdd(RMul(new_balance_from, new_apr_from),
                      RMul(new_balance_to, new_apr_to)),
                 total_balance)
        diff == RSub(new_weighted_apr, current_weighted_apr)
        annual_gain_usd == RMul(diff, total_balance)
        gain_bps == RMul(diff, RInt(10000))
        stability_score ==
            Invoke("EQ_stability_score",
                   <<is_stable, new_util_from, new_util_to, apr_spread>>)
    IN  [ret |->
            [amount |-> amount,
             from |-> from_protocol,
             to |-> to_protocol,
             current_util |-> Pair(from_protocol, from_pool.utilization,
                                   to_protocol, to_pool.utilization),
             new_util |-> Pair(from_protocol, new_util_from,
                               to_protocol, new_util_to),
             current_apr |-> Pair(from_protocol, from_pool.current_apr,
                                  to_protocol, to_pool.current_apr),
             new_apr |-> Pair(from_protocol, new_apr_from,
                              to_protocol, new_apr_to),
             apr_spread |-> apr_spread,
             is_stable |-> is_stable,
             stability_score |-> stability_score,
             current_weighted_apr |-> current_weighted_apr,
             new_weighted_apr |-> new_weighted_apr,
             annual_gain_usd |-> annual_gain_usd,
             gain_bps |-> gain_bps,
             profitable |-> RGt(gain_bps, EQ_min_gain_bps)
                            /\ RGt(annual_gain_usd, EQ_gas_cost_usd)],
         locals |->
            [new_tvl_from |-> new_tvl_from,
             new_tvl_to |-> new_tvl_to,
             new_balance_from |-> new_balance_from,
             new_balance_to |-> new_balance_to]]

\* a faulty variant: the balance held at the source is not checked
EQ_analyze_move_Overdrawn(amount, from_protocol, to_protocol) ==
    IF RLe(amount, RZero)
    THEN [ret |-> [error |-> "Amount must be positive"], locals |-> NoLocals]
    ELSE Invoke("EQ_simulate", <<amount, from_protocol, to_protocol>>)

EQ_analyze_move(amount, from_protocol, to_protocol) ==
    IF RGt(amount, Get(position, from_protocol))
    THEN [ret |-> [error |-> "Insufficient balance"], locals |-> NoLocals]
    ELSE IF RLe(amount, RZero)
    THEN [ret |-> [error |-> "Amount must be positive"], locals |-> NoLocals]
    ELSE Invoke("EQ_simulate", <<amount, from_protocol, to_protocol>>)

\* ------------------------------------------------------------------------
\* RealtimeOptimizer.find_optimal_move (cron_service.py)
\* ------------------------------------------------------------------------

\* the order in which a dict yields its keys: the position is built as
\* {"HyperFi": ..., "HyperLend": ...}, parse_cron_data stores HyperLend first
PositionOrder == <<HyperFi, HyperLend>>
PoolsOrder == <<HyperLend, HyperFi>>

\* Python's None
None == [none |-> TRUE]

\* the number of increments of the search grid (1000 in the code)
GridSteps == 4

\* sorted(set(s))
RECURSIVE Insert(_, _)
Insert(x, s) ==
    IF s = << >> THEN <<x>>
    ELSE IF REq(x, s[1]) THEN s
    ELSE IF RLt(x, s[1]) THEN <<x>> \o s
    ELSE <<s[1]>> \o Insert(x, Tail(s))

RECURSIVE SortedSet(_)
SortedSet(s) == IF s = << >> THEN << >> ELSE Insert(s[1], SortedSet(Tail(s)))

RECURSIVE Concat(_)
Concat(ss) ==
    IF Len(ss) = 0 THEN << >>
    ELSE ss[1] \o Concat([i \in 1..(Len(ss) - 1) |-> ss[i + 1]])

\* the (from_protocol, to_protocol) pairs in the order the two nested loops
\* of a search visit them
PairsInOrder ==
    LET froms == SelectSeq(PositionOrder,
                        LAMBDA f : f \in DOMAIN position
                                   /\ RGt(position[f], RZero))
        tos(f) == SelectSeq(PoolsOrder,
                         LAMBDA t : t \in DOMAIN pools /\ t # f)
    IN  Concat([i \in 1..Len(froms) |->
                  [j \in 1..Len(tos(froms[i])) |->
                      <<froms[i], tos(froms[i])[j]>>]])

_find_kink_points(from_protocol, to_protocol, max_amount) ==
    LET kink == Frac(80, 100)
        from_pool == pools[from_protocol]
        to_pool == pools[to_protocol]
        from_amount == RSub(from_pool.tvl, RDiv(total_borrow(from_pool), kink))
        to_amount == RSub(RDiv(total_borrow(to_pool), kink), to_pool.tvl)
        from_points ==
            IF RLt(from_pool.utilization, kink)
               /\ RLt(RZero, from_amount) /\ RLt(from_amount, max_amount)
            THEN <<from_amount>> ELSE << >>
        to_points ==
            IF RGt(to_pool.utilization, kink)
               /\ RLt(RZero, to_amount) /\ RLt(to_amount, max_amount)
            THEN <<to_amount>> ELSE << >>
    IN  from_points \o to_points

\* test_points of find_optimal_move: the kink points and the grid, sorted
RT_test_points(from_protocol, to_protocol) ==
    LET max_amount == position[from_protocol]
        kink_points == Invoke("_find_kink_points",
                              <<from_protocol, to_protocol, max_amount>>)
        increment == RDiv(max_amount, RInt(GridSteps))
        grid == [i \in 1..(GridSteps + 1) |-> RMul(RInt(i - 1), increment)]
    IN  SortedSet(SelectSeq(kink_points \o grid,
                         LAMBDA q : RLe(RZero, q) /\ RLe(q, max_amount)))

\* result.get("new_weighted_apr", -float('inf'))
RT_new_weighted_apr(amount, from_protocol, to_protocol) ==
    LET result == Invoke("RT_analyze_move",
                         <<amount, from_protocol, to_protocol>>).ret
    IN  IF HasError(result) THEN NegInf ELSE Fin(result.new_weighted_apr)

\* resphi = 2 - phi of the golden-section search, 0.381966...; the model
\* takes the rational 3/8
resphi == Frac(3, 8)

\* tol = 0.1, the precision of the golden-section search in USD
tol == Frac(1, 10)

\* the iteration cap of the golden-section search
MaxIterations == 50

\* one pass of the while loop of _fine_tune_for_max_apr over its local
\* variables s; a pass after the loop has ended changes nothing
GoldenStep(s, from_protocol, to_protocol) ==
    IF RGt(RAbs(RSub(s.right, s.left)), tol) /\ s.iterations < MaxIterations
    THEN IF ExtGt(s.f1, s.f2)
         THEN LET x1 == RAdd(s.left, RMul(resphi, RSub(s.x2, s.left)))
              IN  [left |-> s.left, right |-> s.x2, x1 |-> x1, x2 |-> s.x1,
                   f1 |-> Invoke("RT_new_weighted_apr",
                                 <<x1, from_protocol, to_protocol>>),
                   f2 |-> s.f1, iterations |-> s.iterations + 1]
         ELSE LET x2 == RSub(s.right, RMul(resphi, RSub(s.right, s.x1)))
              IN  [left |-> s.x1, right |-> s.right, x1 |-> s.x2, x2 |-> x2,
                   f1 |-> s.f2,
                   f2 |-> Invoke("RT_new_weighted_apr",
                                 <<x2, from_protocol, to_protocol>>),
                   iterations |-> s.iterations + 1]
    ELSE s

\* the while loop of _fine_tune_for_max_apr: passes of it, the first half
\* of them and then the rest
RECURSIVE GoldenLoop(_, _, _, _)
GoldenLoop(s, passes, from_protocol, to_protocol) ==
    IF passes = 0 THEN s
    ELSE IF passes = 1 THEN GoldenStep(s, from_protocol, to_protocol)
    ELSE CHOOSE last \in
            {GoldenLoop(half, passes - passes \div 2,
                        from_protocol, to_protocol) :
               half \in {GoldenLoop(s, passes \div 2,
                                    from_protocol, to_protocol)}} : TRUE

\* the local variables of _fine_tune_for_max_apr before its while loop
_fine_tune_start(initial, from_protocol, to_protocol, max_amount) ==
    LET window == RMul(max_amount, Frac(1, 10))
        left == RMax(RZero, RSub(initial, window))
        right == RMin(max_amount, RAdd(initial, window))
        x1 == RAdd(left, RMul(resphi, RSub(right, left)))
        x2 == RSub(right, RMul(resphi, RSub(right, left)))
    IN  [left |-> left, right |-> right, x1 |-> x1, x2 |-> x2,
         f1 |-> Invoke("RT_new_weighted_apr",
                       <<x1, from_protocol, to_protocol>>),
         f2 |-> Invoke("RT_new_weighted_apr",
                       <<x2, from_protocol, to_protocol>>),
         iterations |-> 0]

\* the local variables the golden-section search ends with
_fine_tune_bounds(initial, from_protocol, to_protocol, max_amount) ==
    GoldenLoop(Invoke("_fine_tune_start",
                      <<initial, from_protocol, to_protocol, max_amount>>),
               MaxIterations, from_protocol, to_protocol)

_fine_tune_for_max_apr(initial, from_protocol, to_protocol, max_amount) ==
    LET b == Invoke("_fine_tune_bounds",
                    <<initial, from_protocol, to_protocol, max_amount>>)
    IN  RDiv(RAdd(b.left, b.right), RInt(2))

\* an exception that leaves the function unhandled
Raised(kind) == [raised |-> kind]

\* self.pools[from_protocol] raises KeyError: the pair at the head of pairs
\* has a source without a snapshot
RaisesKeyError(pairs) ==
    pairs # << >> /\ pairs[1][1] \notin DOMAIN pools

\* the local variables of find_optimal_move before its loops; points are
\* the test points of the pair at the head of pairs that are still to try,
\* none if its source has no snapshot
RT_search_start ==
    LET pairs == Invoke("PairsInOrder", << >>)
    IN  [best_move |-> None,
         best_weighted_apr |-> Invoke("RT_current_weighted_apr", << >>),
         current_weighted_apr |-> Invoke("RT_current_weighted_apr", << >>),
         total_balance |-> SumValues(position),
         pairs |-> pairs,
         points |-> IF pairs = << >> \/ RaisesKeyError(pairs) THEN << >>
                    ELSE Invoke("RT_test_points", <<pairs[1][1], pairs[1][2]>>),
         tests_performed |-> 0,
         kink_points_found |->
            IF pairs = << >> \/ RaisesKeyError(pairs) THEN 0
            ELSE Len(Invoke("_find_kink_points", <<pairs[1][1], pairs[1][2],
                                       position[pairs[1][1]]>>))]

\* a faulty variant: every candidate the simulator accepts replaces the
\* best so far
RT_scan_point_Latest(l) ==
    LET from_protocol == l.pairs[1][1]
        to_protocol == l.pairs[1][2]
        amount == Head(l.points)
        result == Invoke("RT_analyze_move",
                         <<amount, from_protocol, to_protocol>>).ret
        better == ~HasError(result)
    IN  [l EXCEPT
            !.points = Tail(@),
            !.tests_performed = IF HasError(result) THEN @ ELSE @ + 1,
            !.best_weighted_apr = IF better THEN result.new_weighted_apr ELSE @,
            !.best_move = IF better THEN result ELSE @]

\* a faulty variant: a candidate as good as the best so far replaces it
RT_scan_point_AtLeast(l) ==
    LET from_protocol == l.pairs[1][1]
        to_protocol == l.pairs[1][2]
        amount == Head(l.points)
        result == Invoke("RT_analyze_move",
                         <<amount, from_protocol, to_protocol>>).ret
        better == ~HasError(result)
                  /\ RGe(result.new_weighted_apr, l.best_weighted_apr)
    IN  [l EXCEPT
            !.points = Tail(@),
            !.tests_performed = IF HasError(result) THEN @ ELSE @ + 1,
            !.best_weighted_apr = IF better THEN result.new_weighted_apr ELSE @,
            !.best_move = IF better THEN result ELSE @]

\* one iteration of "for i, amount in enumerate(test_points)"
RT_scan_point(l) ==
    LET from_protocol == l.pairs[1][1]
        to_protocol == l.pairs[1][2]
        amount == Head(l.points)
        result == Invoke("RT_analyze_move",
                         <<amount, from_protocol, to_protocol>>).ret
        better == ~HasError(result)
                  /\ RGt(result.new_weighted_apr, l.best_weighted_apr)
    IN  [l EXCEPT
            !.points = Tail(@),
            !.tests_performed = IF HasError(result) THEN @ ELSE @ + 1,
            !.best_weighted_apr = IF better THEN result.new_weighted_apr ELSE @,
            !.best_move = IF better THEN result ELSE @]

\* a faulty variant of the operator below: the outcome of the refined
\* amount replaces the best move without being compared with it
RT_next_pair_Unchecked(l) ==
    LET from_protocol == l.pairs[1][1]
        to_protocol == l.pairs[1][2]
        max_amount == position[from_protocol]
        tune == /\ l.best_move # None
                /\ l.best_move.from = from_protocol
                /\ l.best_move.to = to_protocol
        optimal == Invoke("_fine_tune_for_max_apr",
                          <<l.best_move.amount, from_protocol,
                                          to_protocol, max_amount>>)
        result == Invoke("RT_analyze_move",
                         <<optimal, from_protocol, to_protocol>>).ret
        better == tune /\ ~HasError(result)
        rest == Tail(l.pairs)
    IN  [l EXCEPT
            !.best_weighted_apr = IF better THEN result.new_weighted_apr ELSE @,
            !.best_move = IF better THEN result ELSE @,
            !.pairs = rest,
            !.points = IF rest = << >> \/ RaisesKeyError(rest) THEN << >>
                       ELSE Invoke("RT_test_points",
                                   <<rest[1][1], rest[1][2]>>),
            !.kink_points_found =
                IF rest = << >> \/ RaisesKeyError(rest) THEN @
                ELSE Len(Invoke("_find_kink_points", <<rest[1][1], rest[1][2],
                                           position[rest[1][1]]>>))]

\* the end of one iteration of "for to_protocol in self.pools": the best
\* move is fine-tuned if it belongs to this pair, and the next pair begins
RT_next_pair(l) ==
    LET from_protocol == l.pairs[1][1]
        to_protocol == l.pairs[1][2]
        max_amount == position[from_protocol]
        tune == /\ l.best_move # None
                /\ l.best_move.from = from_protocol
                /\ l.best_move.to = to_protocol
        optimal == Invoke("_fine_tune_for_max_apr",
                          <<l.best_move.amount, from_protocol,
                                          to_protocol, max_amount>>)
        result == Invoke("RT_analyze_move",
                         <<optimal, from_protocol, to_protocol>>).ret
        better == tune /\ ~HasError(result)
                  /\ RGt(result.new_weighted_apr, l.best_weighted_apr)
        rest == Tail(l.pairs)
    IN  [l EXCEPT
            !.best_weighted_apr = IF better THEN result.new_weighted_apr ELSE @,
            !.best_move = IF better THEN result ELSE @,
            !.pairs = rest,
            !.points = IF rest = << >> \/ RaisesKeyError(rest) THEN << >>
                       ELSE Invoke("RT_test_points",
                                   <<rest[1][1], rest[1][2]>>),
            !.kink_points_found =
                IF rest = << >> \/ RaisesKeyError(rest) THEN @
                ELSE Len(Invoke("_find_kink_points", <<rest[1][1], rest[1][2],
                                           position[rest[1][1]]>>))]

\* a faulty variant: a best move that is not profitable is not returned
RT_search_result_Unprofitable(l) ==
    IF l.best_move = None \/ ~l.best_move.profitable
    THEN [no_move_needed |-> TRUE,
          reason |-> "Current position is already optimal",
          current_position |-> position,
          current_weighted_apr |-> l.current_weighted_apr,
          pool_status |->
             [name \in DOMAIN pools |->
                [utilization |-> pools[name].utilization,
                 apr |-> Invoke("calculate_supply_apr",
                                <<pools[name].utilization, name>>),
                 tvl |-> pools[name].tvl,
                 borrows |-> total_borrow(pools[name])]]]
    ELSE LET detailed_breakdown ==
                [tests_performed |-> l.tests_performed,
                 kink_points_found |-> l.kink_points_found,
                 improvement_bps |->
                    RMul(RSub(l.best_weighted_apr, l.current_weighted_apr),
                         RInt(10000)),
                 current_yield_annual |->
                    RMul(l.current_weighted_apr, l.total_balance),
                 new_yield_annual |->
                    RMul(l.best_weighted_apr, l.total_balance)]
             warned == RLt(l.best_move.gain_bps, Frac(1, 10))
                       /\ RLt(l.best_move.annual_gain_usd, RT_gas_cost_usd)
             result == [detailed_breakdown |-> detailed_breakdown]
                       @@ l.best_move
         IN  IF warned
             THEN [warning |-> "Gain may not cover gas costs"] @@ result
             ELSE result

\* what find_optimal_move returns after its loops
RT_search_result(l) ==
    IF l.best_move = None
    THEN [no_move_needed |-> TRUE,
          reason |-> "Current position is already optimal",
          current_position |-> position,
          current_weighted_apr |-> l.current_weighted_apr,
          pool_status |->
             [name \in DOMAIN pools |->
                [utilization |-> pools[name].utilization,
                 apr |-> Invoke("calculate_supply_apr",
                                <<pools[name].utilization, name>>),
                 tvl |-> pools[name].tvl,
                 borrows |-> total_borrow(pools[name])]]]
    ELSE LET detailed_breakdown ==
                [tests_performed |-> l.tests_performed,
                 kink_points_found |-> l.kink_points_found,
                 improvement_bps |->
                    RMul(RSub(l.best_weighted_apr, l.current_weighted_apr),
                         RInt(10000)),
                 current_yield_annual |->
                    RMul(l.current_weighted_apr, l.total_balance),
                 new_yield_annual |->
                    RMul(l.best_weighted_apr, l.total_balance)]
             warned == RLt(l.best_move.gain_bps, Frac(1, 10))
                       /\ RLt(l.best_move.annual_gain_usd, RT_gas_cost_usd)
             result == [detailed_breakdown |-> detailed_breakdown]
                       @@ l.best_move
         IN  IF warned
             THEN [warning |-> "Gain may not cover gas costs"] @@ result
             ELSE result

\* ------------------------------------------------------------------------
\* EquilibriumOptimizer.find_optimal_equilibrium (cron_dummy.py)
\* ------------------------------------------------------------------------

\* the number of increments of the equilibrium grid (50 in the code: every
\* 2% of the safe range)
EqGridSteps == 5

\* safe_max of find_optimal_equilibrium: the range searched for a pair
EQ_safe_max(from_protocol, to_protocol) ==
    LET max_amount == position[from_protocol]
        from_pool == pools[from_protocol]
        to_pool == pools[to_protocol]
        max_withdraw_allowed ==
            IF RGt(EQ_max_safe_util, RZero)
            THEN RSub(from_pool.tvl,
                      RDiv(total_borrow(from_pool), EQ_max_safe_util))
            ELSE max_amount
        max_from_util == RMin(max_amount, RMax(RZero, max_withdraw_allowed))
        max_to_util ==
            RMax(RZero,
                 RSub(RDiv(total_borrow(to_pool), EQ_min_safe_util), to_pool.tvl))
        safe_max == RMin(max_amount, RMax(RZero, max_from_util))
    IN  IF RGt(max_to_util, RZero) THEN RMin(safe_max, max_to_util) ELSE safe_max

\* test_amounts of find_optimal_equilibrium; none if the pair is skipped
EQ_test_amounts(from_protocol, to_protocol) ==
    LET safe_max == Invoke("EQ_safe_max", <<from_protocol, to_protocol>>)
    IN  IF RLe(safe_max, RZero) THEN << >>
        ELSE [i \in 1..(EqGridSteps + 1) |->
                RDiv(RMul(safe_max, RInt(i - 1)), RInt(EqGridSteps))]

\* combined_score of a candidate
EQ_combined_score(result) ==
    LET yield_score == RDiv(result.gain_bps, RInt(100))
    IN  RAdd(RMul(result.stability_score, Frac(6, 10)),
             RMul(yield_score, Frac(4, 10)))

\* the local variables of find_optimal_equilibrium before its loops;
\* amounts are the test amounts of the pair at the head of pairs that are
\* still to try
EQ_search_start ==
    LET pairs == Invoke("PairsInOrder", << >>)
    IN  [best_move |-> None,
         best_score |-> NegInf,
         best_convergence_move |-> None,
         smallest_spread |-> PosInf,
         all_candidates |-> 0,
         current_weighted_apr |-> Invoke("EQ_current_weighted_apr", << >>),
         pairs |-> pairs,
         amounts |-> IF pairs = << >> \/ RaisesKeyError(pairs) THEN << >>
                     ELSE Invoke("EQ_test_amounts",
                                 <<pairs[1][1], pairs[1][2]>>)]

\* a faulty variant of the iteration below: a candidate need not be stable
\* to become the main move
EQ_scan_amount_Unfiltered(l) ==
    LET from_protocol == l.pairs[1][1]
        to_protocol == l.pairs[1][2]
        amount == Head(l.amounts)
        result == Invoke("EQ_analyze_move",
                         <<amount, from_protocol, to_protocol>>).ret
        tried == ~REq(amount, RZero) /\ ~HasError(result)
        converges ==
            /\ tried
            /\ InSafeBand(result.new_util[from_protocol])
            /\ InSafeBand(result.new_util[to_protocol])
            /\ ExtLt(Fin(result.apr_spread), l.smallest_spread)
        stable == tried /\ result.is_stable
        better == tried
                  /\ ExtGt(Fin(Invoke("EQ_combined_score",
                                      <<result>>)), l.best_score)
    IN  [l EXCEPT
            !.amounts = Tail(@),
            !.smallest_spread = IF converges THEN Fin(result.apr_spread) ELSE @,
            !.best_convergence_move = IF converges THEN result ELSE @,
            !.all_candidates = IF stable THEN @ + 1 ELSE @,
            !.best_score = IF better THEN Fin(Invoke("EQ_combined_score",
                                                     <<result>>)) ELSE @,
            !.best_move = IF better THEN result ELSE @]

\* a faulty variant: every stable candidate replaces the main move,
\* whatever its score
EQ_scan_amount_LastStable(l) ==
    LET from_protocol == l.pairs[1][1]
        to_protocol == l.pairs[1][2]
        amount == Head(l.amounts)
        result == Invoke("EQ_analyze_move",
                         <<amount, from_protocol, to_protocol>>).ret
        tried == ~REq(amount, RZero) /\ ~HasError(result)
        converges ==
            /\ tried
            /\ InSafeBand(result.new_util[from_protocol])
            /\ InSafeBand(result.new_util[to_protocol])
            /\ ExtLt(Fin(result.apr_spread), l.smallest_spread)
        stable == tried /\ result.is_stable
        better == stable
    IN  [l EXCEPT
            !.amounts = Tail(@),
            !.smallest_spread = IF converges THEN Fin(result.apr_spread) ELSE @,
            !.best_convergence_move = IF converges THEN result ELSE @,
            !.all_candidates = IF stable THEN @ + 1 ELSE @,
            !.best_score = IF better THEN Fin(Invoke("EQ_combined_score",
                                                     <<result>>)) ELSE @,
            !.best_move = IF better THEN result ELSE @]

\* a faulty variant: only a stable candidate becomes the convergence
\* recommendation
EQ_scan_amount_StableConvergence(l) ==
    LET from_protocol == l.pairs[1][1]
        to_protocol == l.pairs[1][2]
        amount == Head(l.amounts)
        result == Invoke("EQ_analyze_move",
                         <<amount, from_protocol, to_protocol>>).ret
        tried == ~REq(amount, RZero) /\ ~HasError(result)
        stable == tried /\ result.is_stable
        converges ==
            /\ stable
            /\ InSafeBand(result.new_util[from_protocol])
            /\ InSafeBand(result.new_util[to_protocol])
            /\ ExtLt(Fin(result.apr_spread), l.smallest_spread)
        better == stable
                  /\ ExtGt(Fin(Invoke("EQ_combined_score",
                                      <<result>>)), l.best_score)
    IN  [l EXCEPT
            !.amounts = Tail(@),
            !.smallest_spread = IF converges THEN Fin(result.apr_spread) ELSE @,
            !.best_convergence_move = IF converges THEN result ELSE @,
            !.all_candidates = IF stable THEN @ + 1 ELSE @,
            !.best_score = IF better THEN Fin(Invoke("EQ_combined_score",
                                                     <<result>>)) ELSE @,
            !.best_move = IF better THEN result ELSE @]

\* one iteration of "for amount in test_amounts"
EQ_scan_amount(l) ==
    LET from_protocol == l.pairs[1][1]
        to_protocol == l.pairs[1][2]
        amount == Head(l.amounts)
        result == Invoke("EQ_analyze_move",
                         <<amount, from_protocol, to_protocol>>).ret
        tried == ~REq(amount, RZero) /\ ~HasError(result)
        converges ==
            /\ tried
            /\ InSafeBand(result.new_util[from_protocol])
            /\ InSafeBand(result.new_util[to_protocol])
            /\ ExtLt(Fin(result.apr_spread), l.smallest_spread)
        stable == tried /\ result.is_stable
        better == stable
                  /\ ExtGt(Fin(Invoke("EQ_combined_score",
                                      <<result>>)), l.best_score)
    IN  [l EXCEPT
            !.amounts = Tail(@),
            !.smallest_spread = IF converges THEN Fin(result.apr_spread) ELSE @,
            !.best_convergence_move = IF converges THEN result ELSE @,
            !.all_candidates = IF stable THEN @ + 1 ELSE @,
            !.best_score = IF better THEN Fin(Invoke("EQ_combined_score",
                                                     <<result>>)) ELSE @,
            !.best_move = IF better THEN result ELSE @]

\* the end of one iteration of "for to_protocol in self.pools"
EQ_next_pair(l) ==
    LET rest == Tail(l.pairs)
    IN  [l EXCEPT
            !.pairs = rest,
            !.amounts = IF rest = << >> \/ RaisesKeyError(rest) THEN << >>
                        ELSE Invoke("EQ_test_amounts",
                                    <<rest[1][1], rest[1][2]>>)]

\* what find_optimal_equilibrium returns after its loops
EQ_search_result(l) ==
    IF l.best_move = None
    THEN [no_move_needed |-> TRUE,
          reason |-> "Current position is already at equilibrium",
          current_position |-> position,
          current_weighted_apr |-> l.current_weighted_apr,
          pool_status |->
             [name \in DOMAIN pools |->
                [utilization |-> pools[name].utilization,
                 apr |-> pools[name].current_apr,
                 tvl |-> pools[name].tvl,
                 borrows |-> total_borrow(pools[name])]],
          convergence_recommendation |-> l.best_convergence_move]
    ELSE [equilibrium_analysis |->
             [stability_score |-> l.best_move.stability_score,
              apr_spread_bps |-> RMul(l.best_move.apr_spread, RInt(10000)),
              both_in_safe_zone |-> l.best_move.is_stable,
              estimated_rebalance_frequency |->
                 IF RGt(l.best_move.stability_score, Frac(7, 10))
                 THEN "Low" ELSE "Medium",
              arbitrage_risk |->
                 IF RLt(l.best_move.apr_spread, Frac(1, 100))
                 THEN "Low" ELSE "Medium"],
          convergence_recommendation |-> l.best_convergence_move]
         @@ l.best_move

\* ------------------------------------------------------------------------
\* The decision policy (cron_service.py)
\* ------------------------------------------------------------------------

\* the full-move threshold, in percentage points
FullMoveThreshold == Frac(15, 10)

\* a faulty variant: it recommends the full move to HyperLend whenever the
\* rates are far enough apart, whichever of them is the higher
check_apr_difference_move_AlwaysToHyperLend(current_hyperfi_deposit) ==
    IF Cardinality(DOMAIN pools) < 2
    THEN [error |-> "Need both protocols in cron data"]
    ELSE LET hyperfi_apr ==
                Invoke("calculate_supply_apr",
                       <<pools[HyperFi].utilization, HyperFi>>)
             hyperlend_apr ==
                Invoke("calculate_supply_apr",
                       <<pools[HyperLend].utilization, HyperLend>>)
             apr_diff == RMul(RAbs(RSub(hyperfi_apr, hyperlend_apr)), RInt(100))
             current_balance == current_hyperfi_deposit
         IN  IF RGe(apr_diff, FullMoveThreshold)
             THEN [move_recommended |-> TRUE,
                   amount |-> current_balance,
                   from |-> HyperFi,
                   to |-> HyperLend,
                   apr_difference |-> apr_diff,
                   hyperfi_apr |-> RMul(hyperfi_apr, RInt(100)),
                   hyperlend_apr |-> RMul(hyperlend_apr, RInt(100)),
                   annual_gain |->
                      RMul(current_balance, RSub(hyperlend_apr, hyperfi_apr))]
             ELSE [move_recommended |-> FALSE,
                   use_optimization |-> TRUE,
                   hyperfi_apr |-> RMul(hyperfi_apr, RInt(100)),
                   hyperlend_apr |-> RMul(hyperlend_apr, RInt(100))]

check_apr_difference_move(current_hyperfi_deposit) ==
    IF Cardinality(DOMAIN pools) < 2
    THEN [error |-> "Need both protocols in cron data"]
    ELSE LET hyperfi_apr ==
                Invoke("calculate_supply_apr",
                       <<pools[HyperFi].utilization, HyperFi>>)
             hyperlend_apr ==
                Invoke("calculate_supply_apr",
                       <<pools[HyperLend].utilization, HyperLend>>)
             apr_diff == RMul(RAbs(RSub(hyperfi_apr, hyperlend_apr)), RInt(100))
             current_balance == current_hyperfi_deposit
         IN  IF RGe(apr_diff, FullMoveThreshold)
             THEN IF RGt(hyperfi_apr, hyperlend_apr)
                  THEN [move_recommended |-> FALSE,
                        current_protocol |-> HyperFi,
                        stay_put |-> TRUE]
                  ELSE [move_recommended |-> TRUE,
                        amount |-> current_balance,
                        from |-> HyperFi,
                        to |-> HyperLend,
                        apr_difference |-> apr_diff,
                        hyperfi_apr |-> RMul(hyperfi_apr, RInt(100)),
                        hyperlend_apr |-> RMul(hyperlend_apr, RInt(100)),
                        annual_gain |->
                           RMul(current_balance,
                                RSub(hyperlend_apr, hyperfi_apr))]
             ELSE [move_recommended |-> FALSE,
                   use_optimization |-> TRUE,
                   hyperfi_apr |-> RMul(hyperfi_apr, RInt(100)),
                   hyperlend_apr |-> RMul(hyperlend_apr, RInt(100))]

\* apr_check.get("move_recommended")
MoveRecommended(apr_check) ==
    "move_recommended" \in DOMAIN apr_check /\ apr_check.move_recommended

\* the position optimize_from_cron_data sets up
PolicyPosition(current_hyperfi_deposit) ==
    (HyperFi :> current_hyperfi_deposit) @@ (HyperLend :> RZero)

\* Python's None where the name of a venue is expected
NoVenue == "None"

\* what recommended_move_amount_from_cron makes of the dict best that
\* find_optimal_move returned: best.get("amount", 0.0), best.get("from"),
\* best.get("to")
recommended_move_amount_from_cron(best) ==
    [amount |-> IF "amount" \in DOMAIN best THEN best.amount ELSE RZero,
     from |-> IF "from" \in DOMAIN best THEN best.from ELSE NoVenue,
     to |-> IF "to" \in DOMAIN best THEN best.to ELSE NoVenue]

\* the way the caller of find_optimal_move ends: optimize_from_cron_data
\* returns the result as it is, recommended_move_amount_from_cron its
\* amount, source and destination; the KeyError of a source without a
\* snapshot is caught by none of them
RT_returned(op, l) ==
    LET best == Invoke("RT_search_result", <<l>>)
    IN  IF RaisesKeyError(l.pairs)
        THEN Raised("KeyError")
        ELSE IF op = "recommended_move_amount_from_cron"
        THEN recommended_move_amount_from_cron(best)
        ELSE best

\* the way find_optimal_equilibrium ends: with its result, or with the
\* KeyError of a source without a snapshot
EQ_returned(l) ==
    IF RaisesKeyError(l.pairs)
    THEN Raised("KeyError")
    ELSE Invoke("EQ_search_result", <<l>>)

\* the modelled functions by name
Apply(f, args) ==
    CASE f = "ReducePair" -> ReducePairImpl(args[1], args[2])
      [] f = "RMake" -> RMakeImpl(args[1], args[2], args[3])
      [] f = "RMul" -> RMulImpl(args[1], args[2])
      [] f = "RAdd" -> RAddImpl(args[1], args[2])
      [] f = "RCmp" -> RCmpImpl(args[1], args[2])
      [] f = "calculate_borrow_apr" -> calculate_borrow_apr(args[1], args[2])
      [] f = "calculate_supply_apr" -> calculate_supply_apr(args[1], args[2])
      [] f = "model_supply" -> model_supply(args[1], args[2])
      [] f = "scale" -> scale(args[1], args[2], args[3])
      [] f = "estimate_apr_at_utilization" ->
            estimate_apr_at_utilization(args[1], args[2], args[3], args[4])
      [] f = "_max_move_to_keep_util_above" ->
            _max_move_to_keep_util_above(args[1], args[2])
      [] f = "RT_new_util_from" -> RT_new_util_from(args[1], args[2])
      [] f = "RT_new_util_to" -> RT_new_util_to(args[1], args[2])
      [] f = "RT_current_weighted_apr" -> RT_current_weighted_apr
      [] f = "RT_simulate" -> RT_simulate(args[1], args[2], args[3])
      [] f = "RT_safe_cap" -> RT_safe_cap(args[1])
      [] f = "RT_analyze_move" -> RT_analyze_move(args[1], args[2], args[3])
      [] f = "EQ_new_util_from" -> EQ_new_util_from(args[1], args[2])
      [] f = "EQ_new_util_to" -> EQ_new_util_to(args[1], args[2])
      [] f = "EQ_current_weighted_apr" -> EQ_current_weighted_apr
      [] f = "EQ_stability_score" ->
            EQ_stability_score(args[1], args[2], args[3], args[4])
      [] f = "EQ_simulate" -> EQ_simulate(args[1], args[2], args[3])
      [] f = "EQ_analyze_move" -> EQ_analyze_move(args[1], args[2], args[3])
      [] f = "PairsInOrder" -> PairsInOrder
      [] f = "_find_kink_points" -> _find_kink_points(args[1], args[2], args[3])
      [] f = "RT_test_points" -> RT_test_points(args[1], args[2])
      [] f = "RT_new_weighted_apr" ->
            RT_new_weighted_apr(args[1], args[2], args[3])
      [] f = "_fine_tune_start" ->
            _fine_tune_start(args[1], args[2], args[3], args[4])
      [] f = "_fine_tune_bounds" ->
            _fine_tune_bounds(args[1], args[2], args[3], args[4])
      [] f = "_fine_tune_for_max_apr" ->
            _fine_tune_for_max_apr(args[1], args[2], args[3], args[4])
      [] f = "RT_search_start" -> RT_search_start
      [] f = "RT_scan_point" -> RT_scan_point(args[1])
      [] f = "RT_next_pair" -> RT_next_pair(args[1])
      [] f = "RT_search_result" -> RT_search_result(args[1])
      [] f = "EQ_safe_max" -> EQ_safe_max(args[1], args[2])
      [] f = "EQ_test_amounts" -> EQ_test_amounts(args[1], args[2])
      [] f = "EQ_combined_score" -> EQ_combined_score(args[1])
      [] f = "EQ_search_start" -> EQ_search_start
      [] f = "EQ_scan_amount" -> EQ_scan_amount(args[1])
      [] f = "EQ_next_pair" -> EQ_next_pair(args[1])
      [] f = "EQ_search_result" -> EQ_search_result(args[1])
      [] f = "check_apr_difference_move" -> check_apr_difference_move(args[1])
      [] f = "RT_returned" -> RT_returned(args[1], args[2])
      [] f = "EQ_returned" -> EQ_returned(args[1])
      [] f = "parse_cron_data" -> parse_cron_data(args[1])

\* a call of a modelled function: its arguments are evaluated first, as
\* Python evaluates them, and the function is applied to their values
Invoke(f, args) ==
    CHOOSE result \in {Apply(f, values) : values \in {args}} : TRUE

\* ------------------------------------------------------------------------
\* The simulators and the rate estimate, called on bounded inputs
\* ------------------------------------------------------------------------

Venues == {HyperFi, HyperLend}

\* the largest amount a caller asks to move, in thousands of USD
MaxAmount == 5

Amounts == {RInt(1000 * i) : i \in 0..MaxAmount} \cup {RNeg(RInt(1000))}

\* snapshots of the HyperFi market: at the kink, above it with little
\* supply, and an idle market
HyperFiPools ==
    {CronPoolData(Frac(125, 1000), RInt(10000), Frac(4, 5)),
     CronPoolData(Frac(12, 100), RInt(4000), Frac(9, 10)),
     CronPoolData(RZero, RInt(40000), RZero)}

\* snapshots of the HyperLend market: above the 80% floor with room for a
\* deposit of 5000, with room for 1250, and 3,000,000 USD at 78%
HyperLendPools ==
    {CronPoolData(Frac(14, 100), RInt(40000), Frac(9, 10)),
     CronPoolData(Frac(135, 1000), RInt(20000), Frac(17, 20)),
     CronPoolData(Frac(14, 100), RInt(3000000), Frac(39, 50))}

\* two markets whose observed rates are 300 bps apart, and 200 bps apart
\* after 1000 USD have moved from HyperFi to HyperLend
SpreadExample ==
    (HyperFi :> CronPoolData(Frac(3249, 119500), RInt(40000), Frac(21, 25))) @@
    (HyperLend :> CronPoolData(Frac(3417, 59750), RInt(25000), Frac(21, 25)))

\* the same two markets with observed rates of 1% and 15%: 1000 USD moved
\* from HyperFi to HyperLend narrow the spread from 1400 bps to about 372
WideSpreadExample ==
    (HyperFi :> CronPoolData(Frac(1, 100), RInt(40000), Frac(21, 25))) @@
    (HyperLend :> CronPoolData(Frac(15, 100), RInt(25000), Frac(21, 25)))

Positions ==
    {(HyperFi :> RInt(4000)) @@ (HyperLend :> RZero),
     (HyperFi :> RInt(2000)) @@ (HyperLend :> RInt(3000))}

\* the positions of the simulators' callers; the last holds nothing at
\* HyperFi and does not name it
SimulatorPositions ==
    Positions \cup {(HyperLend :> RInt(3000))}

\* the parameters get_dynamic_protocol_params read at import; the reserve
\* factor is always 0.10
FetchedParams == {DUMMY_PROTOCOL_PARAMS}

NoCall == [op |-> "none"]
NoRet == [none |-> TRUE]

Init ==
    /\ pools \in {(HyperFi :> f) @@ (HyperLend :> l) :
                    f \in HyperFiPools, l \in HyperLendPools}
                 \cup {SpreadExample, WideSpreadExample}
    /\ position \in SimulatorPositions
    /\ PROTOCOL_PARAMS \in FetchedParams
    /\ pc = "idle"
    /\ call = NoCall
    /\ locals = NoLocals
    /\ ret = NoRet

\* no call is in progress: calls do not nest, each starts after the previous
\* one has returned to its caller
Idle == pc = "idle"

\* the caller has taken the returned value
Return ==
    /\ pc = "returned"
    /\ pc' = "idle"
    /\ call' = NoCall
    /\ locals' = NoLocals
    /\ ret' = NoRet
    /\ UNCHANGED <<pools, position, PROTOCOL_PARAMS>>

\* a simulator that books the move it has simulated: the balances after the
\* move replace those of the position
AnalyzeMoveRT_Applied ==
    /\ Idle
    /\ \E amount \in Amounts, from_protocol \in Venues :
        \E to_protocol \in Venues \ {from_protocol} :
            LET r == Invoke("RT_analyze_move",
                            <<amount, from_protocol, to_protocol>>)
            IN  /\ call' = [op |-> "RealtimeOptimizer.analyze_move",
                            amount |-> amount,
                            from |-> from_protocol, to |-> to_protocol]
                /\ ret' = r.ret
                /\ locals' = r.locals
                /\ pc' = "returned"
                /\ position' =
                      IF HasError(r.ret) THEN position
                      ELSE (from_protocol :> r.locals.new_balance_from) @@
                           (to_protocol :> r.locals.new_balance_to) @@
                           position
                /\ UNCHANGED <<pools, PROTOCOL_PARAMS>>

\* RealtimeOptimizer(pools, position).analyze_move(amount, from, to)
AnalyzeMoveRT ==
    /\ Idle
    /\ \E amount \in Amounts, from_protocol \in Venues :
        \E to_protocol \in Venues \ {from_protocol} :
            LET r == Invoke("RT_analyze_move",
                            <<amount, from_protocol, to_protocol>>)
            IN  /\ call' = [op |-> "RealtimeOptimizer.analyze_move",
                            amount |-> amount,
                            from |-> from_protocol, to |-> to_protocol]
                /\ ret' = r.ret
                /\ locals' = r.locals
                /\ pc' = "returned"
                /\ UNCHANGED <<pools, position, PROTOCOL_PARAMS>>

\* EquilibriumOptimizer(pools, position).analyze_move(amount, from, to)
AnalyzeMoveEQ ==
    /\ Idle
    /\ \E amount \in Amounts, from_protocol \in Venues :
        \E to_protocol \in Venues \ {from_protocol} :
            LET r == Invoke("EQ_analyze_move",
                            <<amount, from_protocol, to_protocol>>)
            IN  /\ call' = [op |-> "EquilibriumOptimizer.analyze_move",
                            amount |-> amount,
                            from |-> from_protocol, to |-> to_protocol]
                /\ ret' = r.ret
                /\ locals' = r.locals
                /\ pc' = "returned"
                /\ UNCHANGED <<pools, position, PROTOCOL_PARAMS>>

\* the utilizations and observed rates estimate_apr_at_utilization is asked
\* about, beside those of the snapshots
QueryUtils == {RZero, Frac(1, 2), Frac(4, 5), Frac(9, 10), ROne}
ObservedRates == {RZero, Frac(5, 100), Frac(125, 1000)}

\* estimate_apr_at_utilization(utilization, current_util, current_apr, protocol)
EstimateApr ==
    /\ Idle
    /\ \E utilization \in QueryUtils, current_util \in QueryUtils,
       current_apr \in ObservedRates, protocol \in Venues :
        /\ call' = [op |-> "estimate_apr_at_utilization",
                    utilization |-> utilization,
                    current_util |-> current_util,
                    current_apr |-> current_apr,
                    protocol |-> protocol]
        /\ ret' = Invoke("estimate_apr_at_utilization",
                         <<utilization, current_util,
                                              current_apr, protocol>>)
        /\ locals' = [scale |-> Invoke("scale",
                                       <<current_util, current_apr, protocol>>),
                      base_at_current |-> Invoke("model_supply",
                                                 <<current_util, protocol>>)]
        /\ pc' = "returned"
        /\ UNCHANGED <<pools, position, PROTOCOL_PARAMS>>

Next ==
    \/ AnalyzeMoveRT
    \/ AnalyzeMoveEQ
    \/ EstimateApr
    \/ Return

Spec == Init /\ [][Next]_vars

\* ------------------------------------------------------------------------
\* The searches and the decision policy, run on bounded inputs
\* ------------------------------------------------------------------------

\* curve parameters under which the venues pay 12% and 14% at utilization 0.80
ExampleParams ==
    (HyperLend :> [kink |-> Frac(80, 100), base_rate |-> RZero,
                   slope1 |-> Frac(7, 36), slope2 |-> RInt(1),
                   reserve_factor |-> Frac(10, 100)]) @@
    (HyperFi :> [kink |-> Frac(80, 100), base_rate |-> RZero,
                 slope1 |-> Frac(1, 6), slope2 |-> Frac(75, 100),
                 reserve_factor |-> Frac(10, 100)])

\* curve parameters under which they pay 12% and 13.5% at utilization 0.80:
\* a gap of exactly 1.5 percentage points
BoundaryParams ==
    [ExampleParams EXCEPT ![HyperLend].slope1 = Frac(3, 16)]

SearchParams == {DUMMY_PROTOCOL_PARAMS, ExampleParams, BoundaryParams}

\* snapshots for the searches.  HyperFi: at the kink, at the top of the
\* safe band, inside the safe band.  HyperLend: at its floor of 0.80 (no
\* room for a deposit), and above it with room for 2500 and for 500
SearchPools ==
    {(HyperFi :> f) @@ (HyperLend :> l) :
        f \in {CronPoolData(Frac(125, 1000), RInt(10000), Frac(4, 5)),
               CronPoolData(Frac(12, 100), RInt(40000), Frac(87, 100)),
               CronPoolData(Frac(12, 100), RInt(40000), Frac(82, 100))},
        l \in {CronPoolData(Frac(12, 100), RInt(20000), Frac(4, 5)),
               CronPoolData(Frac(13, 100), RInt(40000), Frac(17, 20)),
               CronPoolData(Frac(13, 100), RInt(40000), Frac(81, 100))}}

\* two markets that both report 12.50% and sit at utilization 0.80, and
\* curve parameters under which both pay 12.50% there
EqualRatesPools ==
    (HyperFi :> CronPoolData(Frac(125, 1000), RInt(10000), Frac(4, 5))) @@
    (HyperLend :> CronPoolData(Frac(125, 1000), RInt(20000), Frac(4, 5)))

EqualRatesParams ==
    [ExampleParams EXCEPT ![HyperLend].slope1 = Frac(25, 144),
                          ![HyperFi].slope1 = Frac(25, 144)]

\* two markets and curve parameters under which moving 2000 USD and moving
\* 2500 USD from HyperFi to HyperLend give the same weighted rate
TiePools ==
    (HyperFi :> CronPoolData(Frac(125, 1000), RInt(20000), Frac(4, 5))) @@
    (HyperLend :> CronPoolData(Frac(13, 100), RInt(40000), Frac(17, 20)))

TieParams == [ExampleParams EXCEPT ![HyperLend].slope1 = Frac(11, 28)]

\* the deposits optimize_from_cron_data is called with
Deposits == {RZero, RInt(400), RInt(4000)}

InitSearch ==
    /\ \/ pools \in SearchPools /\ PROTOCOL_PARAMS \in SearchParams
       \/ pools = EqualRatesPools /\ PROTOCOL_PARAMS = EqualRatesParams
       \/ pools = TiePools /\ PROTOCOL_PARAMS = TieParams
    /\ position \in Positions
    /\ pc = "idle"
    /\ call = NoCall
    /\ locals = NoLocals
    /\ ret = NoRet

\* optimize_from_cron_data(cron_data, current_hyperfi_deposit) up to the
\* construction of the optimizer: it returns at once if nothing was parsed
\* or if the full move is recommended, and else sets up the position
OptimizeFromCron ==
    /\ Idle
    /\ \E current_hyperfi_deposit \in Deposits :
        LET apr_check == Invoke("check_apr_difference_move",
                                <<current_hyperfi_deposit>>)
        IN  /\ call' = [op |-> "optimize_from_cron_data",
                        current_hyperfi_deposit |-> current_hyperfi_deposit]
            /\ UNCHANGED <<pools, PROTOCOL_PARAMS>>
            /\ IF DOMAIN pools = {}
               THEN /\ ret' = [error |-> "Failed to parse cron data"]
                    /\ locals' = NoLocals
                    /\ pc' = "returned"
                    /\ UNCHANGED position
               ELSE IF MoveRecommended(apr_check)
               THEN /\ ret' = apr_check
                    /\ locals' = [apr_check |-> apr_check]
                    /\ pc' = "returned"
                    /\ UNCHANGED position
               ELSE /\ position' = PolicyPosition(current_hyperfi_deposit)
                    /\ locals' = [apr_check |-> apr_check]
                    /\ pc' = "optimizer"
                    /\ ret' = NoRet

\* recommended_move_amount_from_cron(cron_data, current_hyperfi_deposit) up
\* to the construction of the optimizer, which has min_gain_bps 0.1 and the
\* default gas cost of 10 USD
RecommendedMoveAmount ==
    /\ Idle
    /\ \E current_hyperfi_deposit \in Deposits :
        /\ call' = [op |-> "recommended_move_amount_from_cron",
                    current_hyperfi_deposit |-> current_hyperfi_deposit]
        /\ position' = PolicyPosition(current_hyperfi_deposit)
        /\ locals' = NoLocals
        /\ pc' = "optimizer"
        /\ ret' = NoRet
        /\ UNCHANGED <<pools, PROTOCOL_PARAMS>>

\* optimize_from_cron_data and recommended_move_amount_from_cron call
\* find_optimal_move of the optimizer they constructed
PolicySearch ==
    /\ pc = "optimizer"
    /\ locals' = locals @@ Invoke("RT_search_start", << >>)
    /\ pc' = "scan"
    /\ UNCHANGED <<pools, position, PROTOCOL_PARAMS, call, ret>>

\* RealtimeOptimizer(pools, position).find_optimal_move() up to its loops
FindOptimalMove ==
    /\ Idle
    /\ call' = [op |-> "RealtimeOptimizer.find_optimal_move"]
    /\ locals' = Invoke("RT_search_start", << >>)
    /\ pc' = "scan"
    /\ ret' = NoRet
    /\ UNCHANGED <<pools, position, PROTOCOL_PARAMS>>

\* find_optimal_move tries the next test point of the pair
RT_ScanPoint ==
    /\ pc = "scan"
    /\ locals.points # << >>
    /\ locals' = Invoke("RT_scan_point", <<locals>>)
    /\ UNCHANGED <<pools, position, PROTOCOL_PARAMS, pc, call, ret>>

\* find_optimal_move has tried all test points of the pair
RT_NextPair ==
    /\ pc = "scan"
    /\ locals.points = << >>
    /\ locals.pairs # << >>
    /\ ~RaisesKeyError(locals.pairs)
    /\ locals' = Invoke("RT_next_pair", <<locals>>)
    /\ UNCHANGED <<pools, position, PROTOCOL_PARAMS, pc, call, ret>>

\* find_optimal_move ends, and so does the function that made the call:
\* optimize_from_cron_data with the same value,
\* recommended_move_amount_from_cron with the amount, source and
\* destination, all of them with the KeyError if it is raised
RT_Finish ==
    /\ pc = "scan"
    /\ locals.pairs = << >> \/ RaisesKeyError(locals.pairs)
    /\ ret' = Invoke("RT_returned", <<call.op, locals>>)
    /\ pc' = "returned"
    /\ UNCHANGED <<pools, position, PROTOCOL_PARAMS, call, locals>>

\* EquilibriumOptimizer(pools, position).find_optimal_equilibrium() up to
\* its loops
FindOptimalEquilibrium ==
    /\ Idle
    /\ call' = [op |-> "EquilibriumOptimizer.find_optimal_equilibrium"]
    /\ locals' = Invoke("EQ_search_start", << >>)
    /\ pc' = "eq_scan"
    /\ ret' = NoRet
    /\ UNCHANGED <<pools, position, PROTOCOL_PARAMS>>

\* find_optimal_equilibrium tries the next test amount of the pair
EQ_ScanAmount ==
    /\ pc = "eq_scan"
    /\ locals.amounts # << >>
    /\ locals' = Invoke("EQ_scan_amount", <<locals>>)
    /\ UNCHANGED <<pools, position, PROTOCOL_PARAMS, pc, call, ret>>

\* find_optimal_equilibrium has tried all test amounts of the pair, or
\* skips the pair
EQ_NextPair ==
    /\ pc = "eq_scan"
    /\ locals.amounts = << >>
    /\ locals.pairs # << >>
    /\ ~RaisesKeyError(locals.pairs)
    /\ locals' = Invoke("EQ_next_pair", <<locals>>)
    /\ UNCHANGED <<pools, position, PROTOCOL_PARAMS, pc, call, ret>>

\* find_optimal_equilibrium ends
EQ_Finish ==
    /\ pc = "eq_scan"
    /\ locals.pairs = << >> \/ RaisesKeyError(locals.pairs)
    /\ ret' = Invoke("EQ_returned", <<locals>>)
    /\ pc' = "returned"
    /\ UNCHANGED <<pools, position, PROTOCOL_PARAMS, call, locals>>

NextSearch ==
    \/ OptimizeFromCron
    \/ RecommendedMoveAmount
    \/ PolicySearch
    \/ FindOptimalMove
    \/ RT_ScanPoint
    \/ RT_NextPair
    \/ RT_Finish
    \/ FindOptimalEquilibrium
    \/ EQ_ScanAmount
    \/ EQ_NextPair
    \/ EQ_Finish
    \/ Return

SpecSearch == InitSearch /\ [][NextSearch]_vars

\* ------------------------------------------------------------------------
\* Properties of the decision policy and of the searches
\* ------------------------------------------------------------------------

IsPolicy == call.op = "optimize_from_cron_data"
IsRTSearch == call.op = "RealtimeOptimizer.find_optimal_move"
IsEQSearch == call.op = "EquilibriumOptimizer.find_optimal_equilibrium"

\* the supply rate a venue pays at its current utilization
CurrentRate(protocol) ==
    calculate_supply_apr(pools[protocol].utilization, protocol)

\* the gap between the two venues' current rates, in percentage points
RateGap ==
    RMul(RAbs(RSub(CurrentRate(HyperFi), CurrentRate(HyperLend))), RInt(100))

\* optimize_from_cron_data has constructed the optimizer, or has called its
\* find_optimal_move
SearchInvoked ==
    IsPolicy /\ (pc = "optimizer" \/ "pairs" \in DOMAIN locals)

\* C1: whenever the two venues' current rates are at least 1.5 percentage
\* points apart, optimize_from_cron_data does not invoke the search,
\* whichever venue pays more
C1_SearchBypassed ==
    (IsPolicy /\ RGe(RateGap, FullMoveThreshold)) => ~SearchInvoked

\* the full-move shortcut has fired
ShortcutFired == IsPolicy /\ pc = "returned" /\ MoveRecommended(ret)

\* C2: when the shortcut fires the whole balance is moved, the destination
\* pays the higher current rate, and annual_gain is the balance times the
\* difference of the rates: balance * 0.02 for rates of 12% and 14%
C2_FullMove ==
    ShortcutFired =>
        LET balance == call.current_hyperfi_deposit
            higher == CurrentRate(ret.to)
            lower == CurrentRate(ret.from)
        IN  /\ REq(ret.amount, balance)
            /\ {ret.from, ret.to} = {HyperFi, HyperLend}
            /\ RGt(higher, lower)
            /\ REq(ret.annual_gain, RMul(balance, RSub(higher, lower)))
            /\ (REq(lower, Frac(12, 100)) /\ REq(higher, Frac(14, 100)))
                  => REq(ret.annual_gain, RMul(balance, Frac(2, 100)))

\* the shortcut fires on rates of 12% and 14% with a balance of 4000:
\* an annual gain of 80
C2_Witness ==
    /\ ShortcutFired
    /\ REq(CurrentRate(HyperFi), Frac(12, 100))
    /\ REq(CurrentRate(HyperLend), Frac(14, 100))
    /\ REq(call.current_hyperfi_deposit, RInt(4000))
    /\ ret.to = HyperLend
    /\ REq(ret.annual_gain, RInt(80))

\* a search has returned a move: neither no_move_needed nor an error
RTMoveReturned ==
    /\ IsRTSearch \/ IsPolicy
    /\ pc = "returned"
    /\ "pairs" \in DOMAIN locals
    /\ "no_move_needed" \notin DOMAIN ret
    /\ ~HasError(ret)

EQMoveReturned ==
    /\ IsEQSearch
    /\ pc = "returned"
    /\ "no_move_needed" \notin DOMAIN ret
    /\ ~HasError(ret)

\* both utilizations after the returned move lie in the safe band
MoveInSafeBand ==
    InSafeBand(ret.new_util[ret.from]) /\ InSafeBand(ret.new_util[ret.to])

\* the statement of C3 as it is written: every move a search returns is
\* flagged profitable, leaves both utilizations in the safe band and is
\* flagged stable
C3_ProfitableSafeStable ==
    (RTMoveReturned \/ EQMoveReturned) =>
        /\ ret.profitable
        /\ MoveInSafeBand
        /\ "is_stable" \in DOMAIN ret /\ ret.is_stable

\* C3: every move find_optimal_equilibrium returns is flagged stable and
\* leaves both utilizations in the safe band, and every move
\* find_optimal_move returns has a weighted rate strictly above the current
\* one; the profitable flag of either may be false
C3_StableOrBetter ==
    /\ EQMoveReturned => (ret.is_stable /\ MoveInSafeBand)
    /\ RTMoveReturned =>
          RGt(ret.new_weighted_apr, ret.current_weighted_apr)

\* find_optimal_equilibrium returns a stable move that is not profitable
C3_Witness ==
    EQMoveReturned /\ ret.is_stable /\ ~ret.profitable

\* ------------------------------------------------------------------------
\* Properties of the simulators
\* ------------------------------------------------------------------------

IsRT == call.op = "RealtimeOptimizer.analyze_move"
IsEQ == call.op = "EquilibriumOptimizer.analyze_move"
IsAnalyze == IsRT \/ IsEQ
IsEstimate == call.op = "estimate_apr_at_utilization"

\* a simulation that did not fail
Simulated == IsAnalyze /\ ~HasError(ret)

\* C4: in every simulation that does not fail, the balances of the source
\* and the destination after the move add up to exactly what they added up
\* to before it
C4_Conservation ==
    Simulated =>
        REq(RAdd(locals.new_balance_from, locals.new_balance_to),
            RAdd(Get(position, call.from), Get(position, call.to)))

\* a move of 2000 into a venue that already holds 3000, in either simulator
C4_Witness ==
    /\ Simulated
    /\ REq(call.amount, RInt(2000))
    /\ REq(Get(position, call.to), RInt(3000))
    /\ REq(locals.new_balance_to, RInt(5000))
    /\ REq(locals.new_balance_from, RZero)

\* the utilization of the source is the quotient borrowed / supply, not one
\* of the fixed values the simulator substitutes for it
SourceUnclamped ==
    /\ RGt(locals.new_tvl_from, RZero)
    /\ IsRT => RLe(total_borrow(pools[call.from]), locals.new_tvl_from)

DestUnclamped ==
    /\ RGt(locals.new_tvl_to, RZero)
    /\ IsRT => RLe(total_borrow(pools[call.to]), locals.new_tvl_to)

\* C5: after a simulated move of amount a the supply of the source is
\* old - a, that of the destination old + a, and at each venue the reported
\* utilization times the new supply is the borrowed amount of before the
\* move, unless the utilization is clamped
C5_SupplyAndBorrow ==
    Simulated =>
        /\ REq(locals.new_tvl_from, RSub(pools[call.from].tvl, call.amount))
        /\ REq(locals.new_tvl_to, RAdd(pools[call.to].tvl, call.amount))
        /\ SourceUnclamped =>
              REq(RMul(ret.new_util[call.from], locals.new_tvl_from),
                  total_borrow(pools[call.from]))
        /\ DestUnclamped =>
              REq(RMul(ret.new_util[call.to], locals.new_tvl_to),
                  total_borrow(pools[call.to]))

\* a Realtime move out of a venue with borrows, neither utilization clamped
C5_Witness ==
    /\ Simulated /\ IsRT
    /\ SourceUnclamped /\ DestUnclamped
    /\ RGt(total_borrow(pools[call.from]), RZero)
    /\ RLt(ret.new_util[call.from], ROne)
    /\ RGt(ret.new_util[call.from], pools[call.from].utilization)

\* the same simulator does not fail for amount a on the pair of the call
SimulatesAlso(a) ==
    IF IsRT
    THEN ~HasError(RT_analyze_move(a, call.from, call.to).ret)
    ELSE ~HasError(EQ_analyze_move(a, call.from, call.to).ret)

\* what the same simulator reports for amount a on the pair of the call
SourceUtilAt(a) ==
    IF IsRT THEN RT_new_util_from(a, call.from)
    ELSE EQ_new_util_from(a, call.from)

DestUtilAt(a) ==
    IF IsRT THEN RT_new_util_to(a, call.to)
    ELSE EQ_new_util_to(a, call.to)

AtBound(u) == REq(u, ROne) \/ REq(u, RZero)

\* C6: for two amounts a1 < a2 that a simulator accepts on the same pair of
\* venues, a2 gives a strictly greater utilization of the source and a
\* strictly smaller utilization of the destination than a1, except where
\* the reported value sits at 1.0 or 0.0
C6_Monotone ==
    Simulated =>
        \A a1 \in Amounts :
            (RLt(a1, call.amount) /\ SimulatesAlso(a1)) =>
                /\ ~AtBound(ret.new_util[call.from]) =>
                      RLt(SourceUtilAt(a1), ret.new_util[call.from])
                /\ ~AtBound(ret.new_util[call.to]) =>
                      RGt(DestUtilAt(a1), ret.new_util[call.to])

\* an Equilibrium move of 3000 whose utilizations are off the bounds, with
\* the smaller amount 1000 also accepted
C6_Witness ==
    /\ Simulated /\ IsEQ
    /\ REq(call.amount, RInt(3000))
    /\ SimulatesAlso(RInt(1000))
    /\ ~AtBound(ret.new_util[call.from])
    /\ ~AtBound(ret.new_util[call.to])
    /\ RLt(SourceUtilAt(RInt(1000)), ret.new_util[call.from])

\* C7: in every simulation that does not fail, in either simulator, both
\* reported utilizations are at most 1.0, and the source's is exactly 1.0
\* when its supply after the move is not positive
C7_UtilAtMostOne ==
    Simulated =>
        /\ RLe(ret.new_util[call.from], ROne)
        /\ RLe(ret.new_util[call.to], ROne)
        /\ RLe(locals.new_tvl_from, RZero) => REq(ret.new_util[call.from], ROne)

\* C8: estimate_apr_at_utilization asked about the current utilization
\* returns exactly the observed rate, for every current utilization in
\* [0, 1] and every observed rate, and the scale factor is 1 only when the
\* modelled rate at the current utilization is not positive
C8_CalibrationAlways ==
    IsEstimate =>
        /\ REq(call.utilization, call.current_util) => REq(ret, call.current_apr)
        /\ REq(locals.scale, ROne) => RLe(locals.base_at_current, RZero)

\* C8, amended: when the modelled rate at the current utilization is
\* positive the scale factor is observed rate / modelled rate and the
\* estimate at the current utilization is exactly the observed rate;
\* otherwise the scale factor is 1 and the estimate is the modelled rate
C8_CalibrationWhenPositive ==
    IsEstimate =>
        IF RGt(locals.base_at_current, RZero)
        THEN /\ REq(locals.scale,
                    RDiv(call.current_apr, locals.base_at_current))
             /\ REq(call.utilization, call.current_util) =>
                   REq(ret, call.current_apr)
        ELSE /\ REq(locals.scale, ROne)
             /\ REq(ret, model_supply(call.utilization, call.protocol))

\* an estimate at the current utilization 0.9 of a venue observed at 12.5%
C8_Witness ==
    /\ IsEstimate
    /\ REq(call.current_util, Frac(9, 10))
    /\ REq(call.utilization, call.current_util)
    /\ REq(call.current_apr, Frac(125, 1000))
    /\ RGt(locals.base_at_current, RZero)
    /\ ~REq(locals.scale, ROne)
    /\ REq(ret, Frac(125, 1000))

\* C9: a simulation of amount 0 reports a weighted rate after the move
\* equal to the one before it, and does not report the move as profitable
C9_ZeroMoveIdempotent ==
    (IsAnalyze /\ REq(call.amount, RZero)) =>
        /\ "new_weighted_apr" \in DOMAIN ret
        /\ REq(ret.new_weighted_apr, ret.current_weighted_apr)
        /\ ~ret.profitable

\* C9, amended: a simulation of amount 0 fails with "Amount must be
\* positive" in both simulators; it reports no weighted rate and no
\* profitability
C9_ZeroMoveRejected ==
    (IsAnalyze /\ REq(call.amount, RZero)) =>
        /\ HasError(ret)
        /\ ret.error = "Amount must be positive"
        /\ "new_weighted_apr" \notin DOMAIN ret
        /\ "profitable" \notin DOMAIN ret

\* a Realtime simulation of amount 0 out of a venue that holds a balance
C9_Witness ==
    /\ IsRT
    /\ REq(call.amount, RZero)
    /\ RGt(Get(position, call.from), RZero)
    /\ HasError(ret)

\* a deposit the Realtime simulator gets as far as checking against the
\* floor of HyperLend, and that would leave its utilization below 0.80
DepositBelowFloor ==
    /\ IsRT
    /\ call.to = HyperLend
    /\ RGt(call.amount, RZero)
    /\ RLe(call.amount, Get(position, call.from))
    /\ RLt(RDiv(total_borrow(pools[call.to]),
                RAdd(pools[call.to].tvl, call.amount)),
           Frac(80, 100))

\* total_borrowed / 0.80 - total_supplied of the destination
UnflooredCap ==
    RSub(RDiv(total_borrow(pools[call.to]), Frac(80, 100)), pools[call.to].tvl)

\* C10: a deposit that would leave HyperLend below its floor of 0.80 fails
\* with the kink-guard error, whose safe_cap is total_borrowed / 0.80 -
\* total_supplied of the destination, also when the destination starts
\* below the floor
C10_SafeCapUnfloored ==
    DepositBelowFloor =>
        /\ HasError(ret)
        /\ ret.error = "Move exceeds kink guard for HyperLend"
        /\ REq(ret.safe_cap, UnflooredCap)

\* C10, amended: such a deposit fails with the kink-guard error, whose
\* safe_cap is max(0, total_borrowed / 0.80 - total_supplied): 0 for a
\* destination that starts below the floor; a deposit that leaves HyperLend
\* at or above the floor does not fail with the kink-guard error
C10_SafeCapFloored ==
    /\ DepositBelowFloor =>
          /\ HasError(ret)
          /\ ret.error = "Move exceeds kink guard for HyperLend"
          /\ REq(ret.safe_cap, RMax(RZero, UnflooredCap))
    /\ (IsRT /\ HasError(ret)
             /\ ret.error = "Move exceeds kink guard for HyperLend") =>
          DepositBelowFloor

\* a deposit of 1000 into HyperLend holding 3,000,000 USD at utilization 0.78
C10_Witness ==
    /\ DepositBelowFloor
    /\ REq(pools[HyperLend].tvl, RInt(3000000))
    /\ REq(pools[HyperLend].utilization, Frac(78, 100))
    /\ REq(call.amount, RInt(1000))
    /\ HasError(ret)
    /\ REq(ret.safe_cap, RZero)

\* ------------------------------------------------------------------------
\* Properties of recommended_move_amount_from_cron
\* ------------------------------------------------------------------------

IsRecommend == call.op = "recommended_move_amount_from_cron"

\* recommended_move_amount_from_cron has returned a positive amount with
\* destination HyperLend
RecommendsDeposit ==
    /\ IsRecommend
    /\ pc = "returned"
    /\ ret.to = HyperLend
    /\ RGt(ret.amount, RZero)

\* the cap of the kink guard on a deposit into HyperLend
KinkGuardCap ==
    RMax(RZero, RSub(RDiv(total_borrow(pools[HyperLend]), Frac(80, 100)),
                     pools[HyperLend].tvl))

\* the utilization of HyperLend after a deposit of amount
HyperLendUtilAfter(amount) ==
    RDiv(total_borrow(pools[HyperLend]), RAdd(pools[HyperLend].tvl, amount))

\* the amount was tried by the scan of the grid and the kink points
OnGrid(amount) ==
    \E i \in 1..Len(RT_test_points(HyperFi, HyperLend)) :
        REq(RT_test_points(HyperFi, HyperLend)[i], amount)

\* C11: a positive amount recommended_move_amount_from_cron returns with
\* destination HyperLend is at most the cap of the kink guard, and leaves
\* the utilization of HyperLend at 0.80 or above
C11_KinkGuard ==
    RecommendsDeposit =>
        /\ RLe(ret.amount, KinkGuardCap)
        /\ RGe(HyperLendUtilAfter(ret.amount), Frac(80, 100))

\* the amount returned is one the golden-section search refined
C11_Witness ==
    /\ RecommendsDeposit
    /\ ~OnGrid(ret.amount)

\* the amount returned is one of the scanned points
C11_GridWitness ==
    /\ RecommendsDeposit
    /\ OnGrid(ret.amount)

\* ------------------------------------------------------------------------
\* Properties of the equilibrium simulator's stability
\* ------------------------------------------------------------------------

\* EquilibriumOptimizer.analyze_move has returned an outcome
EQSimulated == IsEQ /\ pc = "returned" /\ ~HasError(ret)

\* the gap between the two venues' rates after and before the move
PostSpread == RAbs(RSub(ret.new_apr[call.from], ret.new_apr[call.to]))
PreSpread ==
    RAbs(RSub(pools[call.from].current_apr, pools[call.to].current_apr))

\* the spread cap: max_spread_bps as a rate
SpreadCap == RDiv(EQ_max_spread_bps, RInt(10000))

\* both utilizations after the move lie in [min_safe_util, max_safe_util]
BothInBand ==
    /\ InSafeBand(ret.new_util[call.from])
    /\ InSafeBand(ret.new_util[call.to])

\* C12: an outcome of the equilibrium simulator is stable if and only if
\* both utilizations after the move lie in the safe band and the spread
\* after the move is at most the cap or strictly below the spread before
C12_StableIff ==
    EQSimulated =>
        (ret.is_stable <=>
            (BothInBand /\ (RLe(PostSpread, SpreadCap)
                            \/ RLt(PostSpread, PreSpread))))

\* a move that takes a spread of 300 bps to 200 bps, above the cap of
\* 150 bps, with both utilizations in the safe band, and is stable
C12_Witness ==
    /\ EQSimulated
    /\ REq(PreSpread, Frac(300, 10000))
    /\ REq(PostSpread, Frac(200, 10000))
    /\ REq(SpreadCap, Frac(150, 10000))
    /\ BothInBand
    /\ ret.is_stable

\* C13: the stability_score of every outcome of the equilibrium simulator
\* lies in [0, 1]
C13_ScoreInUnitInterval ==
    EQSimulated =>
        /\ RGe(ret.stability_score, RZero)
        /\ RLe(ret.stability_score, ROne)

\* ------------------------------------------------------------------------
\* Properties of the result of a search
\* ------------------------------------------------------------------------

\* find_optimal_move has returned, to its caller or through
\* optimize_from_cron_data
RTSearchReturned ==
    /\ IsRTSearch \/ IsPolicy
    /\ pc = "returned"
    /\ "pairs" \in DOMAIN locals

EQSearchReturned == IsEQSearch /\ pc = "returned"

NoMoveNeeded == "no_move_needed" \in DOMAIN ret

\* the outcomes of the candidates a search evaluates: for each pair, the
\* amounts of its scan that the simulator accepts
RTEvaluated ==
    UNION {{RT_analyze_move(RT_test_points(pr[1], pr[2])[i], pr[1], pr[2]).ret :
               i \in 1..Len(RT_test_points(pr[1], pr[2]))} :
           pr \in {PairsInOrder[k] : k \in 1..Len(PairsInOrder)}}

EQEvaluated ==
    UNION {{EQ_analyze_move(EQ_test_amounts(pr[1], pr[2])[i], pr[1], pr[2]).ret :
               i \in 1..Len(EQ_test_amounts(pr[1], pr[2]))} :
           pr \in {PairsInOrder[k] : k \in 1..Len(PairsInOrder)}}

\* the rate a venue reports
ObservedRate(protocol) == pools[protocol].current_apr

\* the sum of balance times rate over the sum of balances, 0 for an empty
\* position
WeightedRate(rate(_)) ==
    IF RGt(SumValues(position), RZero)
    THEN RDiv(RSum([p \in DOMAIN position |-> RMul(position[p], rate(p))],
                   DOMAIN position),
              SumValues(position))
    ELSE RZero

\* the status of every venue, with the venue's rate given by rate
StatusOfEveryVenue(rate(_)) ==
    /\ DOMAIN ret.pool_status = DOMAIN pools
    /\ \A name \in DOMAIN pools :
        /\ REq(ret.pool_status[name].utilization, pools[name].utilization)
        /\ REq(ret.pool_status[name].apr, rate(name))
        /\ REq(ret.pool_status[name].tvl, pools[name].tvl)
        /\ REq(ret.pool_status[name].borrows,
               RMul(pools[name].tvl, pools[name].utilization))

\* C14: a search returns no_move_needed exactly when no candidate it
\* evaluated improves on the current weighted rate (find_optimal_move) or
\* none is stable (find_optimal_equilibrium); the result carries the
\* current weighted rate, the sum of balance times current rate over the
\* sum of balances, and the status of every venue
C14_NoMoveNeeded ==
    /\ RTSearchReturned =>
        /\ NoMoveNeeded <=>
              \A r \in RTEvaluated :
                 HasError(r)
                 \/ RLe(r.new_weighted_apr, WeightedRate(CurrentRate))
        /\ NoMoveNeeded =>
              /\ REq(ret.current_weighted_apr, WeightedRate(CurrentRate))
              /\ StatusOfEveryVenue(CurrentRate)
    /\ EQSearchReturned =>
        /\ NoMoveNeeded <=>
              \A r \in EQEvaluated : HasError(r) \/ ~r.is_stable
        /\ NoMoveNeeded =>
              /\ REq(ret.current_weighted_apr, WeightedRate(ObservedRate))
              /\ StatusOfEveryVenue(ObservedRate)

\* both venues at 12.50%, a position no candidate improves on, and a search
\* that has returned no_move_needed with a current weighted rate of 0.1250
C14_Witness ==
    /\ RTSearchReturned \/ EQSearchReturned
    /\ NoMoveNeeded
    /\ pools = EqualRatesPools
    /\ REq(CurrentRate(HyperFi), Frac(125, 1000))
    /\ REq(CurrentRate(HyperLend), Frac(125, 1000))
    /\ REq(ret.current_weighted_apr, Frac(1250, 10000))
    /\ RGt(SumValues(position), RZero)

\* the same for each of the two searches
C14_WitnessRT == C14_Witness /\ RTSearchReturned
C14_WitnessEQ == C14_Witness /\ EQSearchReturned

\* ------------------------------------------------------------------------
\* Properties of the order in which a search keeps candidates
\* ------------------------------------------------------------------------

\* the score of the best move a search holds: the weighted rate after the
\* move, or the combined score
RTScore(move) == move.new_weighted_apr
EQScore(move) == EQ_combined_score(move)

\* the place of a pair in the order the loops visit the pairs
PairIndex(from_protocol, to_protocol) ==
    CHOOSE k \in 1..Len(PairsInOrder) :
        PairsInOrder[k] = <<from_protocol, to_protocol>>

\* candidate c is enumerated no earlier than move r
NotBefore(c, r) ==
    \/ PairIndex(c.from, c.to) > PairIndex(r.from, r.to)
    \/ /\ PairIndex(c.from, c.to) = PairIndex(r.from, r.to)
       /\ RGe(c.amount, r.amount)

\* a step of a scan replaces the best move only by one with a strictly
\* greater score
StrictReplacement ==
    /\ (pc = "scan" /\ pc' = "scan" /\ locals'.best_move # locals.best_move) =>
          /\ RGt(RTScore(locals'.best_move), locals.best_weighted_apr)
          /\ locals.best_move # None =>
                RGt(RTScore(locals'.best_move), RTScore(locals.best_move))
    /\ (pc = "eq_scan" /\ pc' = "eq_scan"
           /\ locals'.best_move # locals.best_move) =>
          /\ ExtGt(Fin(EQScore(locals'.best_move)), locals.best_score)
          /\ locals.best_move # None =>
                RGt(EQScore(locals'.best_move), EQScore(locals.best_move))

\* of the evaluated candidates whose score equals that of the move
\* returned, none is enumerated before it
FirstAmongEqual ==
    /\ (RTSearchReturned /\ ~NoMoveNeeded) =>
          \A c \in RTEvaluated :
             (~HasError(c) /\ REq(RTScore(c), RTScore(ret))) =>
                 NotBefore(c, ret)
    /\ (EQSearchReturned /\ ~NoMoveNeeded) =>
          \A c \in EQEvaluated :
             (~HasError(c) /\ c.is_stable
                  /\ REq(EQScore(c), EQScore(ret))) =>
                 NotBefore(c, ret)

\* C15: in both searches a later candidate replaces the best one only if
\* its score is strictly greater, so of candidates with equal score the one
\* enumerated first is returned: the smaller amount within a pair, the
\* earlier pair across pairs
C15_FirstKept == [][StrictReplacement]_vars /\ []FirstAmongEqual

\* the candidate the scan of find_optimal_move evaluated last
LastScanned ==
    LET all == RT_test_points(locals.pairs[1][1], locals.pairs[1][2])
    IN  RT_analyze_move(all[Len(all) - Len(locals.points)],
                        locals.pairs[1][1], locals.pairs[1][2]).ret

\* the scan has just evaluated a candidate whose score equals that of the
\* best move, a smaller amount of the same pair, and has kept the best move
C15_Witness ==
    /\ pc = "scan"
    /\ locals.pairs # << >>
    /\ locals.best_move # None
    /\ Len(locals.points) <
          Len(RT_test_points(locals.pairs[1][1], locals.pairs[1][2]))
    /\ ~HasError(LastScanned)
    /\ REq(RTScore(LastScanned), RTScore(locals.best_move))
    /\ locals.best_move.from = LastScanned.from
    /\ locals.best_move.to = LastScanned.to
    /\ RLt(locals.best_move.amount, LastScanned.amount)

\* ------------------------------------------------------------------------
\* Properties of the simulators' early returns
\* ------------------------------------------------------------------------

\* the balance held at the source of the call, 0 if the position does not
\* name the source
SourceBalance == IF call.from \in DOMAIN position THEN position[call.from]
                 ELSE RZero

\* the value returned is an error of the given kind and nothing else
OnlyError(kind) == DOMAIN ret = {"error"} /\ ret.error = kind

\* an amount of 0 or less returns the invalid-amount error, an amount above
\* the balance held at the source the insufficient-balance error
EarlyReturns ==
    (IsAnalyze /\ pc = "returned") =>
        /\ RLe(call.amount, RZero) => OnlyError("Amount must be positive")
        /\ RGt(call.amount, SourceBalance) => OnlyError("Insufficient balance")

\* a call of a simulator that returns one of the two errors leaves the
\* pools and the position as they were
EarlyReturnsKeepState ==
    (IsAnalyze' /\ pc' = "returned" /\ HasError(ret')
        /\ ret'.error \in {"Amount must be positive", "Insufficient balance"}) =>
        pools' = pools /\ position' = position

\* C16: analyze_move returns the invalid-amount error for every amount of 0
\* or less and the insufficient-balance error for every amount above the
\* balance held at the source, 0 for a source the position does not name;
\* the value returned has no other field, and pools and position are
\* unchanged
C16_EarlyReturns == []EarlyReturns /\ [][EarlyReturnsKeepState]_vars

\* a positive amount asked from a venue the position does not name
C16_Witness ==
    /\ IsAnalyze /\ pc = "returned"
    /\ call.from \notin DOMAIN position
    /\ RGt(call.amount, RZero)
    /\ OnlyError("Insufficient balance")

\* an amount of 0 or less
C16_WitnessAmount ==
    /\ IsAnalyze /\ pc = "returned"
    /\ RLe(call.amount, RZero)
    /\ OnlyError("Amount must be positive")

\* ------------------------------------------------------------------------
\* The policy and the searches, run on what parse_cron_data returns
\* ------------------------------------------------------------------------

\* both venues on one line, as the cron job writes them
BothVenues ==
    <<Word("hyplend"), Word("usde"), AprField(RInt(13)),
      TvlField(RInt(40000)), UtilField(RInt(85)), Word("||"),
      Word("hypurfi"), Word("usde"), AprField(RInt(12)),
      TvlField(RInt(40000)), UtilField(RInt(82))>>

\* one venue only
OnlyHyperLend ==
    <<Word("HypLend"), Word("usde"), AprField(RInt(13)),
      TvlField(RInt(40000)), UtilField(RInt(85))>>

OnlyHyperFi ==
    <<Word("HyperFi"), Word("usde"), AprField(RInt(12)),
      TvlField(RInt(40000)), UtilField(RInt(82))>>

\* no venue: fields without a name
NoKeyword ==
    <<Word("invalid"), Word("string"), AprField(RInt(13)),
      TvlField(RInt(40000))>>

\* both venues on one line, the first without its rate
MissingRate ==
    <<Word("hyperlend"), Word("usde"), TvlField(RInt(40000)),
      UtilField(RInt(85)), Word("||"),
      Word("hypurfi"), Word("usde"), AprField(RInt(12)),
      TvlField(RInt(30000)), UtilField(RInt(82))>>

\* one venue, its supply and utilization on the next line
SplitLines ==
    <<Word("hyplend"), Word("usde"), AprField(RInt(13)), NewLine,
      TvlField(RInt(40000)), UtilField(RInt(85))>>

CronStrings ==
    {BothVenues, OnlyHyperLend, OnlyHyperFi, NoKeyword, MissingRate, SplitLines}

InitCron ==
    /\ \E cron_data \in CronStrings :
          pools = Invoke("parse_cron_data", <<cron_data>>)
    /\ position \in Positions
    /\ PROTOCOL_PARAMS = ExampleParams
    /\ pc = "idle"
    /\ call = NoCall
    /\ locals = NoLocals
    /\ ret = NoRet

\* parse_cron_data(cron_string)
ParseCronData ==
    /\ Idle
    /\ \E cron_string \in CronStrings :
        /\ call' = [op |-> "parse_cron_data", cron_string |-> cron_string]
        /\ ret' = Invoke("parse_cron_data", <<cron_string>>)
        /\ locals' = NoLocals
        /\ pc' = "returned"
        /\ UNCHANGED <<pools, position, PROTOCOL_PARAMS>>

\* snapshots whose derived figures are read: 1,000,000 USD at 80%, a market
\* lent out in full, an empty market, and negative figures
PropertyPools ==
    {CronPoolData(Frac(15, 100), RInt(1000000), Frac(8, 10)),
     CronPoolData(Frac(5, 100), RInt(1000), ROne),
     CronPoolData(RZero, RZero, RZero),
     CronPoolData(RNeg(Frac(1, 10)), RNeg(RInt(1000)), RNeg(Frac(1, 2))),
     CronPoolData(Frac(1, 10), RInt(1000), RNeg(Frac(1, 2)))}

\* CronPoolData(...).total_borrow and .available_liquidity
PoolProperties ==
    /\ Idle
    /\ \E pool \in PropertyPools :
        /\ call' = [op |-> "CronPoolData", pool |-> pool]
        /\ ret' = [total_borrow |-> total_borrow(pool),
                   available_liquidity |-> available_liquidity(pool)]
        /\ locals' = NoLocals
        /\ pc' = "returned"
        /\ UNCHANGED <<pools, position, PROTOCOL_PARAMS>>

NextCron ==
    \/ ParseCronData
    \/ PoolProperties
    \/ OptimizeFromCron
    \/ RecommendedMoveAmount
    \/ PolicySearch
    \/ FindOptimalMove
    \/ RT_ScanPoint
    \/ RT_NextPair
    \/ RT_Finish
    \/ FindOptimalEquilibrium
    \/ EQ_ScanAmount
    \/ EQ_NextPair
    \/ EQ_Finish
    \/ Return

SpecCron == InitCron /\ [][NextCron]_vars

\* ------------------------------------------------------------------------
\* Properties of the way the policy and the searches end
\* ------------------------------------------------------------------------

\* optimize_from_cron_data or one of the two searches has ended
Ended == pc = "returned" /\ (IsPolicy \/ IsRTSearch \/ IsEQSearch)

\* a Result value: a move, no_move_needed or an error value
IsResult(r) ==
    \/ "amount" \in DOMAIN r
    \/ "no_move_needed" \in DOMAIN r
    \/ "error" \in DOMAIN r

\* C17: optimize_from_cron_data and both searches end with a Result value
\* on every input, also when only one venue is recognised and the position
\* holds a balance at a venue without a snapshot; without any venue
\* optimize_from_cron_data returns an error
C17_NoFatal ==
    Ended =>
        /\ IsResult(ret)
        /\ (IsPolicy /\ DOMAIN pools = {}) => HasError(ret)

\* a call has ended with an exception
C17_Raised == Ended /\ "raised" \in DOMAIN ret

\* ------------------------------------------------------------------------
\* The simulators and the searches of one optimizer, called in any order
\* ------------------------------------------------------------------------

CorePools ==
    {TiePools, EqualRatesPools,
     (HyperFi :> CronPoolData(Frac(12, 100), RInt(40000), Frac(82, 100))) @@
     (HyperLend :> CronPoolData(Frac(13, 100), RInt(40000), Frac(17, 20)))}

InitCore ==
    /\ pools \in CorePools
    /\ position \in Positions
    /\ PROTOCOL_PARAMS = ExampleParams
    /\ pc = "idle"
    /\ call = NoCall
    /\ locals = NoLocals
    /\ ret = NoRet

NextCore ==
    \/ AnalyzeMoveRT
    \/ AnalyzeMoveEQ
    \/ FindOptimalMove
    \/ RT_ScanPoint
    \/ RT_NextPair
    \/ RT_Finish
    \/ FindOptimalEquilibrium
    \/ EQ_ScanAmount
    \/ EQ_NextPair
    \/ EQ_Finish
    \/ Return

SpecCore == InitCore /\ [][NextCore]_vars

\* a step of the core leaves the snapshots and the position as they were
CoreFrame == pools' = pools /\ position' = position

\* what the simulator that was called returns when it is called once more
\* with the same amount and pair
RepeatedCall ==
    IF IsRT
    THEN RT_analyze_move(call.amount, call.from, call.to).ret
    ELSE EQ_analyze_move(call.amount, call.from, call.to).ret

\* an analyze_move that has returned returns the same when repeated
Repeatable == (IsAnalyze /\ pc = "returned") => RepeatedCall = ret

\* C18: no step of analyze_move, find_optimal_move or
\* find_optimal_equilibrium changes the pool snapshots or the position, so
\* after any sequence of calls they equal their initial values, and an
\* analyze_move repeated with the same amount and pair returns the same
\* outcome
C18_Frame == [][CoreFrame]_vars /\ []Repeatable

\* a simulation of a positive amount has returned a move, after which the
\* position still holds the balance it was asked to move
C18_Witness ==
    /\ IsRT /\ pc = "returned"
    /\ ~HasError(ret)
    /\ RGt(call.amount, RZero)
    /\ RGe(Get(position, call.from), call.amount)
    /\ RepeatedCall = ret

\* ------------------------------------------------------------------------
\* Properties of the figures derived from a snapshot
\* ------------------------------------------------------------------------

IsPoolProperties == call.op = "CronPoolData" /\ pc = "returned"

C19_WitnessFull ==
    /\ IsPoolProperties
    /\ REq(call.pool.utilization, ROne)
    /\ RGt(ret.total_borrow, RZero)
    /\ REq(ret.available_liquidity, RZero)

\* ------------------------------------------------------------------------
\* Properties of parse_cron_data
\* ------------------------------------------------------------------------

IsParse == call.op = "parse_cron_data" /\ pc = "returned"

\* the names by which an input names a venue, in any case
NamesOf(venue) ==
    IF venue = HyperLend THEN {"hyplend", "hyperlend"}
    ELSE {"hypurfi", "hyperfi"}

\* the piece at place i names the venue
NamesVenue(cron_string, i, venue) ==
    /\ cron_string[i].kind = "word"
    /\ str_lower(cron_string[i].text) \in NamesOf(venue)

\* the input names the venue
Mentions(cron_string, venue) ==
    \E i \in 1..Len(cron_string) : NamesVenue(cron_string, i, venue)

\* the places of the fields of a kind given for a venue: those that follow
\* its name on the line before another venue is named
OwnFields(cron_string, venue, kind) ==
    {j \in 1..Len(cron_string) :
        /\ cron_string[j].kind = kind
        /\ \E i \in 1..(j - 1) :
              /\ NamesVenue(cron_string, i, venue)
              /\ \A m \in (i + 1)..j :
                    /\ cron_string[m].kind # "newline"
                    /\ \A other \in Venues :
                          ~NamesVenue(cron_string, m, other)}

\* the number given for the venue in a field of a kind, 0 if it has none
GivenValue(cron_string, venue, kind) ==
    LET own == OwnFields(cron_string, venue, kind)
    IN  IF own = {} THEN RZero
        ELSE cron_string[CHOOSE j \in own : \A k \in own : j <= k].value

C20_BorrowedRate ==
    /\ IsParse
    /\ DOMAIN ret = Venues
    /\ OwnFields(call.cron_string, HyperLend, "apr") = {}
    /\ RGt(ret[HyperLend].current_apr, RZero)

\* ------------------------------------------------------------------------
\* The range a search covers for a pair
\* ------------------------------------------------------------------------

\* the most that can leave a venue with its utilization staying at or below
\* max_safe, 0 if negative
WithdrawMax(pool, max_safe) ==
    RMax(RZero, RSub(pool.tvl, RDiv(total_borrow(pool), max_safe)))

\* the most that can enter a venue with its utilization staying at or above
\* min_safe, 0 if negative; min_safe is positive here
DepositMax(pool, min_safe) ==
    RMax(RZero, RSub(RDiv(total_borrow(pool), min_safe), pool.tvl))

\* the least of the balance held at the source, what the source can give
\* and what the destination can take
UsableRange(from_protocol, to_protocol) ==
    RMax(RZero,
         RMin(position[from_protocol],
              RMin(WithdrawMax(pools[from_protocol], EQ_max_safe_util),
                   DepositMax(pools[to_protocol], EQ_min_safe_util))))

\* find_optimal_equilibrium is about to try amounts of the pair at the head
\* of its list
EQScanningPair ==
    /\ IsEQSearch
    /\ pc = "eq_scan"
    /\ locals.pairs # << >>
    /\ ~RaisesKeyError(locals.pairs)
    /\ locals.amounts # << >>

\* C21: for every ordered pair the largest amount the equilibrium search
\* evaluates is min(balance at the source, withdraw_max(source),
\* deposit_max(destination)) clipped to >= 0, and no amount of a pair whose
\* range is <= 0 is evaluated
C21_SearchRange ==
    EQScanningPair =>
        LET range == UsableRange(locals.pairs[1][1], locals.pairs[1][2])
        IN  /\ RGt(range, RZero)
            /\ REq(locals.amounts[Len(locals.amounts)], range)

\* the destination has no room for a deposit and the search tries amounts
\* of the pair all the same
C21_NoRoom ==
    /\ EQScanningPair
    /\ REq(DepositMax(pools[locals.pairs[1][2]], EQ_min_safe_util), RZero)
    /\ RGt(locals.amounts[Len(locals.amounts)], RZero)

\* ------------------------------------------------------------------------
\* The simulators on a position of three venues
\* ------------------------------------------------------------------------

\* a third venue, which the simulated moves do not touch
OtherVenue == "Other"

PortfolioPools ==
    {(HyperFi :> CronPoolData(Frac(12, 100), RInt(40000), Frac(82, 100))) @@
     (HyperLend :> CronPoolData(Frac(13, 100), RInt(40000), Frac(17, 20))) @@
     (OtherVenue :> o) :
        o \in {CronPoolData(Frac(10, 100), RInt(50000), Frac(1, 2)),
               CronPoolData(Frac(20, 100), RInt(50000), Frac(9, 10))}}

PortfolioParams ==
    ExampleParams @@
    (OtherVenue :> [kink |-> Frac(80, 100), base_rate |-> RZero,
                    slope1 |-> Frac(1, 6), slope2 |-> Frac(75, 100),
                    reserve_factor |-> Frac(10, 100)])

\* positions that hold 5000, 1000 and nothing at the third venue
PortfolioPositions ==
    {(HyperFi :> RInt(2000)) @@ (HyperLend :> RInt(3000)) @@
        (OtherVenue :> RInt(5000)),
     (HyperFi :> RInt(4000)) @@ (HyperLend :> RZero) @@
        (OtherVenue :> RInt(1000)),
     (HyperFi :> RInt(2000)) @@ (HyperLend :> RInt(3000)) @@
        (OtherVenue :> RZero)}

InitPortfolio ==
    /\ pools \in PortfolioPools
    /\ position \in PortfolioPositions
    /\ PROTOCOL_PARAMS = PortfolioParams
    /\ pc = "idle"
    /\ call = NoCall
    /\ locals = NoLocals
    /\ ret = NoRet

NextPortfolio ==
    \/ AnalyzeMoveRT
    \/ AnalyzeMoveEQ
    \/ Return

SpecPortfolio == InitPortfolio /\ [][NextPortfolio]_vars

\* the rate a simulator takes for a venue before the move: the calculated
\* rate at the venue's utilization, or the rate the venue reports
RateBefore(protocol) ==
    IF IsRT THEN calculate_supply_apr(pools[protocol].utilization, protocol)
    ELSE pools[protocol].current_apr

\* the venues of the position the simulated move does not touch
Untouched == DOMAIN position \ {call.from, call.to}

\* the sum of balance times rate over the sum of balances after the move:
\* the two venues touched at their new balances and rates, every other
\* venue at the balance and rate it has before the move
WeightedRateAfter ==
    RDiv(RAdd(RAdd(RMul(locals.new_balance_from, ret.new_apr[call.from]),
                   RMul(locals.new_balance_to, ret.new_apr[call.to])),
              RSum([p \in Untouched |-> RMul(position[p], RateBefore(p))],
                   Untouched)),
         SumValues(position))

\* C22: in every simulation outcome the weighted rate before the move and
\* the weighted rate after it are the sum of balance times rate over the
\* sum of balances, taken over every venue of the position: a venue the
\* move does not touch counts in the rate after the move as it does in
\* the rate before
C22_WholePosition ==
    Simulated =>
        /\ REq(ret.current_weighted_apr, WeightedRate(RateBefore))
        /\ REq(ret.new_weighted_apr, WeightedRateAfter)

\* a move simulated on a position that holds a balance at a third venue
C22_ThirdVenueHeld ==
    /\ Simulated
    /\ RGt(call.amount, RZero)
    /\ RGt(position[OtherVenue], RZero)

\* ------------------------------------------------------------------------
\* The simulator and the pure-yield search when the kinks differ
\* ------------------------------------------------------------------------

\* curve parameters whose kinks are not both 0.80: HyperLend's at 0.84, or
\* HyperFi's at 0.875
KinkParams ==
    {[ExampleParams EXCEPT ![HyperLend].kink = Frac(84, 100)],
     [ExampleParams EXCEPT ![HyperFi].kink = Frac(875, 1000)]}

\* HyperFi at utilization 0.82 or 0.80 and HyperLend at 0.85
KinkPools ==
    {(HyperFi :> CronPoolData(Frac(12, 100), RInt(40000), Frac(82, 100))) @@
     (HyperLend :> CronPoolData(Frac(13, 100), RInt(40000), Frac(17, 20))),
     TiePools}

InitKinks ==
    /\ pools \in KinkPools
    /\ position \in Positions
    /\ PROTOCOL_PARAMS \in KinkParams
    /\ pc = "idle"
    /\ call = NoCall
    /\ locals = NoLocals
    /\ ret = NoRet

NextKinks ==
    \/ AnalyzeMoveRT
    \/ FindOptimalMove
    \/ RT_ScanPoint
    \/ RT_NextPair
    \/ RT_Finish
    \/ Return

SpecKinks == InitKinks /\ [][NextKinks]_vars

\* a venue's own kink
KinkOf(protocol) == PROTOCOL_PARAMS[protocol].kink

\* C23: in every outcome of the Realtime simulator kink_crossings[v] is
\* true exactly when the utilization of v moves from one side of v's own
\* kink to the other, for the source and for the destination, also when
\* the two venues have different kinks
C23_OwnKink ==
    (IsRT /\ Simulated) =>
        \A v \in {call.from, call.to} :
            ret.kink_crossings[v]
                <=> Crosses(ret.current_util[v], KinkOf(v), ret.new_util[v])

\* a deposit takes HyperLend from 0.85 to below its kink of 0.84
C23_DestinationCrosses ==
    /\ IsRT /\ Simulated
    /\ call.to = HyperLend
    /\ REq(KinkOf(HyperLend), Frac(84, 100))
    /\ RLt(ret.new_util[HyperLend], KinkOf(HyperLend))
    /\ RGe(ret.current_util[HyperLend], KinkOf(HyperLend))

\* ------------------------------------------------------------------------
\* The best move during the enumeration of find_optimal_move
\* ------------------------------------------------------------------------

\* the place of the pair at the head of pairs in the order of enumeration,
\* one past the last place when every pair has been tried
HeadPair == Len(PairsInOrder) - Len(locals.pairs) + 1

\* the outcomes of the grid and kink candidates find_optimal_move has
\* evaluated so far: all those of the pairs before the head pair, and of
\* the head pair those that are no longer in points
ScannedSoFar ==
    UNION {LET pr == PairsInOrder[k]
               all == RT_test_points(pr[1], pr[2])
               done == IF k < HeadPair THEN Len(all)
                       ELSE IF k = HeadPair THEN Len(all) - Len(locals.points)
                       ELSE 0
           IN  {RT_analyze_move(all[i], pr[1], pr[2]).ret : i \in 1..done} :
           k \in 1..Len(PairsInOrder)}

\* best_weighted_apr is at least the current weighted rate and the rate of
\* every candidate evaluated so far that did not fail; it is the current
\* rate while there is no best move, and else the rate after the best
\* move, which is the simulator's outcome for its amount and pair and is
\* above the current rate
BestOfScanned ==
    pc = "scan" =>
        /\ RGe(locals.best_weighted_apr, locals.current_weighted_apr)
        /\ \A r \in ScannedSoFar :
              HasError(r)
              \/ RLe(r.new_weighted_apr, locals.best_weighted_apr)
        /\ IF locals.best_move = None
           THEN REq(locals.best_weighted_apr, locals.current_weighted_apr)
           ELSE /\ REq(locals.best_move.new_weighted_apr,
                       locals.best_weighted_apr)
                /\ RGt(locals.best_weighted_apr, locals.current_weighted_apr)
                /\ locals.best_move =
                      RT_analyze_move(locals.best_move.amount,
                                      locals.best_move.from,
                                      locals.best_move.to).ret

\* the move find_optimal_move returns is above the current weighted rate
\* and at least as good as every candidate of every pair that did not fail
ReturnedIsBest ==
    (RTSearchReturned /\ ~NoMoveNeeded) =>
        /\ RGt(ret.new_weighted_apr, ret.current_weighted_apr)
        /\ \A r \in RTEvaluated :
              HasError(r) \/ RLe(r.new_weighted_apr, ret.new_weighted_apr)

\* a step of the enumeration does not lower best_weighted_apr
NeverDecreases ==
    (pc = "scan" /\ pc' = "scan") =>
        RGe(locals'.best_weighted_apr, locals.best_weighted_apr)

\* C24: throughout the enumeration of find_optimal_move best_weighted_apr
\* is the maximum of the current weighted rate and the rates after the
\* candidates evaluated so far that did not fail, it never decreases, and
\* best_move, when set, is the outcome that attains it; a failing candidate
\* is only left out; so the move returned is at least as good as every
\* candidate that did not fail and strictly above the current rate
C24_BestSoFar ==
    [][NeverDecreases]_vars /\ []BestOfScanned /\ []ReturnedIsBest

\* a move has been returned by a search in which a candidate failed and
\* another candidate that did not fail gives a lower rate than the move
C24_Witness ==
    /\ RTSearchReturned
    /\ ~NoMoveNeeded
    /\ \E r \in RTEvaluated : HasError(r)
    /\ \E r \in RTEvaluated :
          ~HasError(r) /\ RLt(r.new_weighted_apr, ret.new_weighted_apr)

\* ------------------------------------------------------------------------
\* The kink amounts among the candidates of find_optimal_move
\* ------------------------------------------------------------------------

\* the amount withdrawn that brings the source's utilization to its kink,
\* and the amount deposited that brings the destination's to its kink
KinkAmounts(from_protocol, to_protocol) ==
    {RSub(pools[from_protocol].tvl,
          RDiv(total_borrow(pools[from_protocol]), KinkOf(from_protocol))),
     RSub(RDiv(total_borrow(pools[to_protocol]), KinkOf(to_protocol)),
          pools[to_protocol].tvl)}

\* find_optimal_move has built the candidates of the pair at the head of
\* pairs and has tried none of them yet
RTPairBegins ==
    /\ pc = "scan"
    /\ locals.pairs # << >>
    /\ ~RaisesKeyError(locals.pairs)
    /\ Len(locals.points) =
          Len(RT_test_points(locals.pairs[1][1], locals.pairs[1][2]))

\* C25: for every ordered pair of the pure-yield search each amount
\* strictly between 0 and the range of the pair that brings the source's
\* or the destination's utilization to exactly that venue's kink is one of
\* the candidates, whatever the kinks of the curve parameters are
C25_KinkCandidates ==
    RTPairBegins =>
        LET from_protocol == locals.pairs[1][1]
            to_protocol == locals.pairs[1][2]
        IN  \A a \in KinkAmounts(from_protocol, to_protocol) :
               (RLt(RZero, a) /\ RLt(a, position[from_protocol])) =>
                  \E i \in 1..Len(locals.points) : REq(locals.points[i], a)

\* a pair begins for which an amount inside the range brings a venue to
\* its kink
C25_KinkInsideRange ==
    /\ RTPairBegins
    /\ \E a \in KinkAmounts(locals.pairs[1][1], locals.pairs[1][2]) :
          RLt(RZero, a) /\ RLt(a, position[locals.pairs[1][1]])

\* ------------------------------------------------------------------------
\* The golden-section refinement
\* ------------------------------------------------------------------------

\* find_optimal_move has tried every candidate of the pair at the head of
\* pairs and the best move belongs to that pair: it is about to refine it
RTRefines ==
    /\ pc = "scan"
    /\ locals.points = << >>
    /\ locals.pairs # << >>
    /\ ~RaisesKeyError(locals.pairs)
    /\ locals.best_move # None
    /\ locals.best_move.from = locals.pairs[1][1]
    /\ locals.best_move.to = locals.pairs[1][2]

\* the local variables of the while loop after each of its first passes
\* passes, s being those before the first
RECURSIVE GoldenTrace(_, _, _, _)
GoldenTrace(s, passes, from_protocol, to_protocol) ==
    IF passes = 0 THEN << >>
    ELSE IF passes = 1 THEN <<GoldenStep(s, from_protocol, to_protocol)>>
    ELSE LET Rest(first) ==
                first \o GoldenTrace(first[Len(first)],
                                     passes - passes \div 2,
                                     from_protocol, to_protocol)
         IN  CHOOSE all \in
                {Rest(first) :
                    first \in {GoldenTrace(s, passes \div 2,
                                           from_protocol, to_protocol)}} :
                TRUE

\* the refinement about to be made: the bracket stays ordered and inside
\* the window of 10% of the balance around the best amount of the grid,
\* before the loop and after every pass; the loop makes at most
\* MaxIterations passes and ends only when the bracket is no wider than
\* tol or the passes are used up; the amount returned is in the window
RefinementBounded ==
    RTRefines =>
        LET from_protocol == locals.pairs[1][1]
            to_protocol == locals.pairs[1][2]
            initial == locals.best_move.amount
            max_amount == position[from_protocol]
            lowest == RMax(RZero, RSub(initial, RMul(max_amount, Frac(1, 10))))
            highest == RMin(max_amount,
                            RAdd(initial, RMul(max_amount, Frac(1, 10))))
            start == _fine_tune_start(initial, from_protocol, to_protocol,
                                      max_amount)
            trace == <<start>> \o GoldenTrace(start, MaxIterations,
                                              from_protocol, to_protocol)
            last == _fine_tune_bounds(initial, from_protocol, to_protocol,
                                      max_amount)
            optimal == _fine_tune_for_max_apr(initial, from_protocol,
                                              to_protocol, max_amount)
        IN  /\ \A k \in 1..Len(trace) :
                  /\ RLe(lowest, trace[k].left)
                  /\ RLe(trace[k].left, trace[k].right)
                  /\ RLe(trace[k].right, highest)
                  /\ trace[k].iterations <= MaxIterations
            /\ last = trace[Len(trace)]
            /\ \/ last.iterations = MaxIterations
               \/ RLe(RSub(last.right, last.left), tol)
            /\ \A k \in 1..(Len(trace) - 1) :
                  trace[k + 1].iterations > trace[k].iterations =>
                     RGt(RSub(trace[k].right, trace[k].left), tol)
            /\ RLe(lowest, optimal)
            /\ RLe(optimal, highest)

\* the step that refines replaces the best move only by an outcome with a
\* strictly higher weighted rate
RefinedOnlyIfHigher ==
    (RTRefines /\ pc' = "scan" /\ locals'.best_move # locals.best_move) =>
        /\ locals'.best_move # None
        /\ RGt(locals'.best_move.new_weighted_apr, locals.best_weighted_apr)

\* C26: the golden-section refinement ends after at most 50 iterations,
\* earlier once the bracket is no wider than 0.10; it keeps left <= right
\* inside [max(0, initial - 10% of max_amount), min(max_amount, initial +
\* 10% of max_amount)] at every iteration and returns an amount inside
\* that window; the refined amount replaces the best of the grid only if
\* the weighted rate after it is strictly higher
C26_GoldenSection == []RefinementBounded /\ [][RefinedOnlyIfHigher]_vars

\* a refinement has run and its outcome has replaced the best of the grid
C26_Witness ==
    /\ RTSearchReturned
    /\ ~NoMoveNeeded
    /\ \A r \in RTEvaluated : HasError(r) \/ ~REq(r.amount, ret.amount)

\* ------------------------------------------------------------------------
\* The convergence recommendation of find_optimal_equilibrium
\* ------------------------------------------------------------------------

\* find_optimal_equilibrium has returned a result of its loops, a move or
\* no_move_needed
EQResultReturned ==
    EQSearchReturned /\ "convergence_recommendation" \in DOMAIN ret

\* the evaluated candidates whose two utilizations after the move lie in
\* the safe band
InBandCandidates ==
    {c \in EQEvaluated :
        /\ ~HasError(c)
        /\ ~REq(c.amount, RZero)
        /\ InSafeBand(c.new_util[c.from])
        /\ InSafeBand(c.new_util[c.to])}

\* r is the candidate c
SameCandidate(r, c) ==
    r.from = c.from /\ r.to = c.to /\ REq(r.amount, c.amount)

\* C27: the convergence_recommendation of the result, of a move and of
\* no_move_needed alike, is the first-enumerated of the in-band candidates
\* with the smallest spread, whatever its stability and its score, and it
\* is null exactly when no evaluated candidate is in the band
C27_ConvergenceRecommendation ==
    EQResultReturned =>
        LET chosen == ret.convergence_recommendation
        IN  /\ (chosen = None) <=> (InBandCandidates = {})
            /\ chosen # None =>
                  /\ \E c \in InBandCandidates :
                        SameCandidate(chosen, c)
                        /\ REq(chosen.apr_spread, c.apr_spread)
                  /\ \A c \in InBandCandidates :
                        /\ RLe(chosen.apr_spread, c.apr_spread)
                        /\ REq(chosen.apr_spread, c.apr_spread) =>
                              NotBefore(c, chosen)

\* a result carries a recommendation that is not the main move, and
\* another that is not stable
C27_Witness ==
    /\ EQResultReturned
    /\ ret.convergence_recommendation # None
    /\ Cardinality(InBandCandidates) > 1
    /\ NoMoveNeeded \/ ~SameCandidate(ret.convergence_recommendation, ret)

\* no_move_needed carries a recommendation
C27_WitnessNoMove ==
    EQResultReturned /\ NoMoveNeeded /\ ret.convergence_recommendation # None

\* a recommendation that is not stable
C27_WitnessUnstable ==
    EQResultReturned /\ ret.convergence_recommendation # None
    /\ ~ret.convergence_recommendation.is_stable

\* no candidate in the band
C27_WitnessNull ==
    EQResultReturned /\ ret.convergence_recommendation = None

\* ------------------------------------------------------------------------
\* The main move of find_optimal_equilibrium
\* ------------------------------------------------------------------------

\* the evaluated candidates that enter the comparison of scores
ScoredCandidates ==
    {c \in EQEvaluated : ~HasError(c) /\ ~REq(c.amount, RZero)}

StableCandidates == {c \in ScoredCandidates : c.is_stable}

\* C28: the main move find_optimal_equilibrium returns is a stable
\* candidate whose combined score 0.6 * stability_score + 0.4 * gain_bps /
\* 100 is at least that of every stable candidate of every ordered pair; a
\* candidate that is not stable is never the main move, whatever its score
C28_BestStable ==
    EQMoveReturned =>
        /\ \E c \in StableCandidates :
              SameCandidate(ret, c) /\ REq(EQScore(ret), EQScore(c))
        /\ \A c \in ScoredCandidates :
              /\ SameCandidate(ret, c) => c.is_stable
              /\ c.is_stable => RGe(EQScore(ret), EQScore(c))

\* the main move beats another stable candidate while a candidate that is
\* not stable has a higher score than the main move
C28_Witness ==
    /\ EQMoveReturned
    /\ \E c \in StableCandidates : RGt(EQScore(ret), EQScore(c))
    /\ \E c \in ScoredCandidates :
          ~c.is_stable /\ RGt(EQScore(c), EQScore(ret))

\* ------------------------------------------------------------------------
\* The two rate models on bounded inputs
\* ------------------------------------------------------------------------

\* the utilizations the rate models are asked about: the ends of [0, 1],
\* the kinks of the curves, the cap 0.9999 and points on both sides of them
RateUtils ==
    QueryUtils \cup {Frac(84, 100), Frac(875, 1000), Frac(9999, 10000),
                     Frac(99995, 100000)}

\* curves with a kink strictly between 0 and 1
RateParams == {DUMMY_PROTOCOL_PARAMS, ExampleParams} \cup KinkParams

InitRates ==
    /\ pools \in {SpreadExample, WideSpreadExample}
    /\ position \in Positions
    /\ PROTOCOL_PARAMS \in RateParams
    /\ pc = "idle"
    /\ call = NoCall
    /\ locals = NoLocals
    /\ ret = NoRet

\* calculate_supply_apr(utilization, protocol)
CalculateSupplyApr ==
    /\ Idle
    /\ \E utilization \in RateUtils, protocol \in Venues :
        /\ call' = [op |-> "calculate_supply_apr",
                    utilization |-> utilization,
                    protocol |-> protocol]
        /\ ret' = Invoke("calculate_supply_apr", <<utilization, protocol>>)
        /\ locals' = [borrow_apr |-> Invoke("calculate_borrow_apr",
                                            <<utilization, protocol>>)]
        /\ pc' = "returned"
        /\ UNCHANGED <<pools, position, PROTOCOL_PARAMS>>

NextRates ==
    \/ CalculateSupplyApr
    \/ EstimateApr
    \/ Return

SpecRates == InitRates /\ [][NextRates]_vars

SupplyRateReturned == pc = "returned" /\ call.op = "calculate_supply_apr"

EstimateReturned ==
    pc = "returned" /\ call.op = "estimate_apr_at_utilization"

\* u clamped to [0, 0.9999]
Clamped(u) == RMax(RZero, RMin(Frac(9999, 10000), u))

\* the borrow rate of a curve at v: the first branch below the kink, the
\* second at or above it
KinkedBorrow(v, params) ==
    IF RLt(v, params.kink)
    THEN RAdd(params.base_rate,
              RMul(params.slope1, RDiv(v, params.kink)))
    ELSE RAdd(RAdd(params.base_rate, params.slope1),
              RMul(params.slope2,
                   RDiv(RSub(v, params.kink), RSub(ROne, params.kink))))

\* borrow(u') * u' * (1 - reserve_factor) with u' the clamped utilization
ClampedSupplyRate(u, params) ==
    RMul(RMul(KinkedBorrow(Clamped(u), params), Clamped(u)),
         RSub(ROne, params.reserve_factor))

\* the two branches of the borrow rate meet at the kink
BranchesMeet(params) ==
    REq(RAdd(params.base_rate,
             RMul(params.slope1, RDiv(params.kink, params.kink))),
        RAdd(RAdd(params.base_rate, params.slope1),
             RMul(params.slope2,
                  RDiv(RSub(params.kink, params.kink),
                       RSub(ROne, params.kink)))))

\* C29: for every utilization in [0, 1] and every curve with a kink
\* strictly between 0 and 1, calculate_supply_apr and the model inside
\* estimate_apr_at_utilization return borrow(u') * u' * (1 - reserve_factor)
\* at u' = the utilization clamped to [0, 0.9999], and the two branches of
\* the borrow rate give the same value at the kink
C29_ClampedRate ==
    /\ SupplyRateReturned =>
          /\ REq(ret, ClampedSupplyRate(call.utilization,
                                        PROTOCOL_PARAMS[call.protocol]))
          /\ BranchesMeet(PROTOCOL_PARAMS[call.protocol])
    /\ EstimateReturned =>
          /\ REq(locals.base_at_current,
                 ClampedSupplyRate(call.current_util,
                                   DUMMY_PROTOCOL_PARAMS[call.protocol]))
          /\ REq(ret,
                 RMul(ClampedSupplyRate(call.utilization,
                                        DUMMY_PROTOCOL_PARAMS[call.protocol]),
                      locals.scale))
          /\ BranchesMeet(DUMMY_PROTOCOL_PARAMS[call.protocol])

\* what the code does: calculate_supply_apr evaluates the curve at the
\* utilization it is given, the model of estimate_apr_at_utilization at the
\* clamped one; the two agree up to 0.9999
RatesAsComputed ==
    /\ SupplyRateReturned =>
          /\ REq(ret,
                 RMul(RMul(KinkedBorrow(call.utilization,
                                        PROTOCOL_PARAMS[call.protocol]),
                           call.utilization),
                      RSub(ROne,
                           PROTOCOL_PARAMS[call.protocol].reserve_factor)))
          /\ RLe(call.utilization, Frac(9999, 10000)) =>
                REq(ret, ClampedSupplyRate(call.utilization,
                                           PROTOCOL_PARAMS[call.protocol]))
          /\ BranchesMeet(PROTOCOL_PARAMS[call.protocol])
    /\ EstimateReturned =>
          /\ REq(locals.base_at_current,
                 ClampedSupplyRate(call.current_util,
                                   DUMMY_PROTOCOL_PARAMS[call.protocol]))
          /\ REq(ret,
                 RMul(ClampedSupplyRate(call.utilization,
                                        DUMMY_PROTOCOL_PARAMS[call.protocol]),
                      locals.scale))
          /\ BranchesMeet(DUMMY_PROTOCOL_PARAMS[call.protocol])

\* calculate_supply_apr is asked about a utilization above 0.9999
AboveTheCap ==
    SupplyRateReturned /\ RGt(call.utilization, Frac(9999, 10000))

\* ------------------------------------------------------------------------
\* The moves the searches and the full-move shortcut return
\* ------------------------------------------------------------------------

\* the balance held at a venue when the move was decided: the deposit the
\* shortcut was called with, which is all at HyperFi, or the optimizer's
\* position
HeldAt(protocol) ==
    IF ShortcutFired
    THEN IF protocol = HyperFi THEN call.current_hyperfi_deposit ELSE RZero
    ELSE IF protocol \in DOMAIN position THEN position[protocol] ELSE RZero

\* the returned move takes a positive amount, no more than is held at its
\* source, to another venue
ReturnedMoveValid ==
    /\ RGt(ret.amount, RZero)
    /\ RLe(ret.amount, HeldAt(ret.from))
    /\ RGt(HeldAt(ret.from), RZero)
    /\ ret.to # ret.from

\* C30: every move returned by find_optimal_move, by
\* find_optimal_equilibrium or by the full-move shortcut has an amount
\* strictly greater than 0 and at most the balance held at its source, a
\* source with a positive balance and a destination other than the source,
\* the amount refined by the golden-section search included
C30_ValidMove ==
    (RTMoveReturned \/ EQMoveReturned \/ ShortcutFired) => ReturnedMoveValid

\* the moves of the two searches alone
SearchMovesValid ==
    (RTMoveReturned \/ EQMoveReturned) => ReturnedMoveValid

\* the shortcut recommends the move of an empty balance
EmptyFullMove ==
    ShortcutFired /\ REq(call.current_hyperfi_deposit, RZero)

\* find_optimal_move returns an amount the golden-section search refined
RefinedMoveReturned ==
    /\ RTMoveReturned
    /\ \A pr \in {PairsInOrder[k] : k \in 1..Len(PairsInOrder)} :
          \A i \in 1..Len(RT_test_points(pr[1], pr[2])) :
              ~REq(ret.amount, RT_test_points(pr[1], pr[2])[i])

====
